---- MODULE Spec2Model ----
(***************************************************************************)
(* A model of GameTime's satisfiability layer: the two Solver adapters     *)
(* (Z3Solver.checkSat, BoolectorSolver.checkSat) and the Z3 model parser   *)
(* with its Mapping classes (Z3Function, Z3ConstantFunction, Z3Array).     *)
(*                                                                         *)
(* Spec        one adapter object, one Query at a time, checkSat run step  *)
(*             by step, with the environment's choices (solver output,     *)
(*             exit code, exceptions of the library calls) drawn from      *)
(*             small sets.                                                 *)
(* SpecParser  the grammar actions of Z3ModelParser applied to the         *)
(*             definitions of a model text, and Mapping.get lookups on the *)
(*             result.                                                     *)
(***************************************************************************)
EXTENDS Integers, Sequences, FiniteSets, TLC

VARIABLES
    \* ---- solver adapters ----
    adapter,        \* the Solver object: [kind, satSolver]
    query,          \* the Query object: [status, hasModel, model, hasCore, core]
    pc,             \* position inside checkSat
    labels,         \* label methods invoked on the query by the current call
    err,            \* exception propagating out of the current call
    fileExists,     \* the NamedTemporaryFile of the current call is on disk
    fileText,       \* what has been written to it
    proc,           \* the spawned solver process: none, running, exited
    spawns,         \* number of Popen calls of the current call
    exitCode,       \* exit status of the solver process
    output,         \* raw stdout of the process, as output.split("\n")
    outputLines,    \* output.strip().split("\n")
    z3,             \* locals of Z3Solver.checkSat
    \* ---- model parser ----
    allAssignments, \* ModelParser.allAssignments
    allMappings,    \* ModelParser.allMappings
    arrayTempIndexVals, \* ModelParser.arrayTempIndexVals
    stack,          \* value stack of the parser for the definition in progress
    src,            \* text of the definitions parsed so far (ghost)
    addLog,         \* Mapping.add calls of the definition in progress (ghost)
    lastGet,        \* the last lookup made on the parsed model and its result
    \* ---- concurrent calls through one adapter ----
    threads,        \* per thread: the locals of its checkSat call and its Query
    files,          \* the temporary directory: file name -> text
    mainCtx,        \* z3's process-wide default context
    \* ---- analyzeProject and the simulators ----
    hist,           \* a call of _getHistogramRange: its arguments and outcome
    mainRun,        \* a run of main: its arguments, position and steps taken
    sim,            \* a call of Simulator.measurePaths: the paths and locals
    \* ---- pure functions of the adapters and of the model parser ----
    naming,         \* calls of SatSolver.getSatSolver / getName and the constructor
    packing         \* the packing of two index tuples by Z3Array.get

solverVars == <<adapter, query, pc, labels, err, fileExists, fileText, proc,
                spawns, exitCode, output, outputLines, z3>>
parserVars == <<allAssignments, allMappings, arrayTempIndexVals, stack, src,
                addLog, lastGet>>
concVars == <<threads, files, mainCtx>>
toolVars == <<hist, mainRun, sim, naming, packing>>
vars == <<solverVars, parserVars, concVars, toolVars>>

(***************************************************************************)
(* Bounds                                                                  *)
(***************************************************************************)
\* longest solver output, in lines
MaxLines == 3
\* most children of the top-level conjunction of a query
MaxChildren == 3
\* largest constraint id
MaxId == 2
\* threads calling checkSat at the same time
MaxThreads == 2

(***************************************************************************)
(* SatSolver                                                               *)
(***************************************************************************)
LINGELING == 0
MINISAT == 1
PICOSAT == 2

GameTimeError == "GameTimeError"

\* SatSolver.getName: the name, or GameTimeError for any other value.
SatSolver_getName(satSolver) ==
    IF satSolver = LINGELING THEN "lingeling"
    ELSE IF satSolver = MINISAT THEN "minisat"
    ELSE IF satSolver = PICOSAT THEN "picosat"
    ELSE GameTimeError

\* Values a caller may construct BoolectorSolver with: the constructor stores
\* its argument unchecked, so a value outside the enumeration is one of them.
SatSolverArgs == {LINGELING, MINISAT, PICOSAT, PICOSAT + 1}

\* BoolectorSolver._generateBoolectorCommand
generateBoolectorCommand(satSolver, location) ==
    IF SatSolver_getName(satSolver) = GameTimeError THEN <<GameTimeError>>
    ELSE <<"boolector", "--model", "--smt2", SatSolver_getName(satSolver), location>>

(***************************************************************************)
(* Query (the class is not part of the sources at hand)                    *)
(***************************************************************************)
NewQueryObj == [status |-> "Pending", hasModel |-> FALSE, model |-> <<>>,
                hasCore |-> FALSE, core |-> <<>>]

labelSat(q, model) == [q EXCEPT !.status = "Sat", !.hasModel = TRUE, !.model = model]

labelUnsat(q, unsatCore) ==
    [q EXCEPT !.status = "Unsat", !.hasCore = TRUE, !.core = unsatCore]

labelUnknown(q) == [q EXCEPT !.status = "Unknown"]

\* The query after the label methods of calls, invoked in order.
RECURSIVE Invoke(_, _)
Invoke(q, calls) ==
    IF calls = <<>> THEN q
    ELSE LET c == Head(calls)
             q1 == IF c.m = "labelSat" THEN labelSat(q, c.arg)
                   ELSE IF c.m = "labelUnsat" THEN labelUnsat(q, c.arg)
                   ELSE labelUnknown(q)
         IN Invoke(q1, Tail(calls))

Methods(calls) == [i \in 1..Len(calls) |-> calls[i].m]

(***************************************************************************)
(* Solver output                                                           *)
(***************************************************************************)
\* A line of output: a token alone, a token with whitespace before or after
\* it, other text, or nothing.
Lines == {"sat", "unsat", "m", "", " sat", "sat ", " unsat", "unsat "}

RECURSIVE SeqsUpTo(_, _)
SeqsUpTo(S, n) ==
    IF n = 0 THEN {<<>>}
    ELSE LET shorter == SeqsUpTo(S, n - 1)
         IN shorter \cup {Append(s, x) : s \in {t \in shorter : Len(t) = n - 1}, x \in S}

\* str.split("\n") yields at least one element.
Outputs == {o \in SeqsUpTo(Lines, MaxLines) : Len(o) >= 1}

ExitCodes == {0, 1}

lstrip(line) ==
    IF line = " sat" THEN "sat" ELSE IF line = " unsat" THEN "unsat" ELSE line

rstrip(line) ==
    IF line = "sat " THEN "sat" ELSE IF line = "unsat " THEN "unsat" ELSE line

RECURSIVE DropLeadingBlank(_)
DropLeadingBlank(ls) ==
    IF ls = <<>> THEN ls
    ELSE IF Head(ls) = "" THEN DropLeadingBlank(Tail(ls)) ELSE ls

RECURSIVE DropTrailingBlank(_)
DropTrailingBlank(ls) ==
    IF ls = <<>> THEN ls
    ELSE IF ls[Len(ls)] = "" THEN DropTrailingBlank(SubSeq(ls, 1, Len(ls) - 1)) ELSE ls

\* output.strip().split("\n"): whitespace, line breaks included, goes from
\* both ends of the whole text, then the text is cut at the line breaks left.
StripSplit(out) ==
    LET core == DropTrailingBlank(DropLeadingBlank(out))
    IN IF core = <<>> THEN <<"">>
       ELSE [i \in 1..Len(core) |->
                LET a == IF i = 1 THEN lstrip(core[i]) ELSE core[i]
                IN IF i = Len(core) THEN rstrip(a) ELSE a]

Contains(ls, tok) == \E i \in 1..Len(ls) : ls[i] = tok

\* list.index: position of the first element equal to tok (0 when none).
IndexOf(ls, tok) ==
    IF Contains(ls, tok)
    THEN CHOOSE i \in 1..Len(ls) : ls[i] = tok /\ \A j \in 1..(i - 1) : ls[j] # tok
    ELSE 0

\* "\n".join(outputLines[isSat+1:])
ModelText(ls) == SubSeq(ls, IndexOf(ls, "sat") + 1, Len(ls))

\* A label method invoked on the query, with its argument.
LabelCall(m, arg) == [m |-> m, arg |-> arg]

\* An outcome of the labelling part of checkSat: the label methods it
\* invokes, in order, and the exception it ends with.
Outcome(calls, e) == [calls |-> calls, err |-> e]

BoolectorLabelling_TwoIfs(ls) ==
    IF IndexOf(ls, "sat") # 0
    THEN {Outcome(<<LabelCall("labelSat", ModelText(ls)), LabelCall("labelUnknown", <<>>)>>,
                  "none")}
    ELSE IF Contains(ls, "unsat")
    THEN {Outcome(<<LabelCall("labelUnsat", <<>>)>>, "none")}
    ELSE {Outcome(<<LabelCall("labelUnknown", <<>>)>>, "none")}

BoolectorLabelling_UnsatFirst(ls) ==
    IF Contains(ls, "unsat")
    THEN {Outcome(<<LabelCall("labelUnsat", <<>>)>>, "none")}
    ELSE IF IndexOf(ls, "sat") # 0
    THEN {Outcome(<<LabelCall("labelSat", ModelText(ls))>>, "none"),
          Outcome(<<>>, "ModelError")}
    ELSE {Outcome(<<LabelCall("labelUnknown", <<>>)>>, "none")}

BoolectorLabelling_ElseUnsat(ls) ==
    IF IndexOf(ls, "sat") # 0
    THEN {Outcome(<<LabelCall("labelSat", ModelText(ls))>>, "none"),
          Outcome(<<>>, "ModelError")}
    ELSE {Outcome(<<LabelCall("labelUnsat", <<>>)>>, "none")}

BoolectorLabelling_ElseRaise(ls) ==
    IF IndexOf(ls, "sat") # 0
    THEN {Outcome(<<LabelCall("labelSat", ModelText(ls))>>, "none"),
          Outcome(<<>>, "ModelError")}
    ELSE IF Contains(ls, "unsat")
    THEN {Outcome(<<LabelCall("labelUnsat", <<>>)>>, "none")}
    ELSE {Outcome(<<>>, GameTimeError)}

\* Lines 134-141 of BoolectorSolver.checkSat on outputLines.  Model(...)
\* raises on a model text it cannot take, before labelSat is reached.
BoolectorLabelling(ls) ==
    IF IndexOf(ls, "sat") # 0
    THEN {Outcome(<<LabelCall("labelSat", ModelText(ls))>>, "none"),
          Outcome(<<>>, "ModelError")}
    ELSE IF Contains(ls, "unsat")
    THEN {Outcome(<<LabelCall("labelUnsat", <<>>)>>, "none")}
    ELSE {Outcome(<<LabelCall("labelUnknown", <<>>)>>, "none")}

(***************************************************************************)
(* Z3 queries                                                              *)
(***************************************************************************)
\* A child of the top-level expression: an equivalence whose first child is
\* the indicator variable of constraint lhs, a conjunction, or a leaf.
\* Constraint numbers of a query: some of one digit, one of two.
ConstraintIds == (1..MaxId) \cup {10 + MaxId}

Children == [kind : {"iff"}, lhs : ConstraintIds]
            \cup {[kind |-> "and", lhs |-> 0], [kind |-> "atom", lhs |-> 0]}

Exprs == [kind : {"and", "other"}, children : SeqsUpTo(Children, MaxChildren)]

NoZ3 == [queryExpr |-> [kind |-> "none", children |-> <<>>], asserted |-> <<>>,
         constraintVars |-> <<>>, result |-> "none", core |-> <<>>]

Equivalences_All(e) == e.children

\* queryExpr.children()[:-1]
Equivalences(e) == SubSeq(e.children, 1, Len(e.children) - 1)

Z3Shape_TopOnly(e) ==
    IF e.kind # "and" THEN GameTimeError
    ELSE IF e.children = <<>> THEN "IndexError"
    ELSE "ok"

\* The check of lines 44-47, with the IndexError of children()[-1].
Z3Shape(e) ==
    IF e.kind # "and" THEN GameTimeError
    ELSE IF e.children = <<>> THEN "IndexError"
    ELSE IF e.children[Len(e.children)].kind # "and" THEN GameTimeError
    ELSE "ok"

\* The asserted formulas alone can be unsatisfiable only if one of them is
\* no equivalence or two of them define the same indicator.
CanBeUnsatAlone(eqs) ==
    \/ \E i \in 1..Len(eqs) : eqs[i].kind # "iff"
    \/ \E i, j \in 1..Len(eqs) : i # j /\ eqs[i].lhs = eqs[j].lhs

\* Subsequences of the assumptions, in the assumptions' order.
Cores(cvs) ==
    {[i \in 1..Cardinality(I) |->
        cvs[CHOOSE k \in I : Cardinality({m \in I : m < k}) = i - 1]]
     : I \in SUBSET (1..Len(cvs))}

\* config.IDENT_CONSTRAINT, the prefix of the name of an indicator variable.
IDENT_CONSTRAINT == <<"c">>

DigitChars == <<"0", "1", "2", "3", "4", "5", "6", "7", "8", "9">>

\* str(n) for a natural number
RECURSIVE DecStr(_)
DecStr(n) ==
    IF n < 10 THEN <<DigitChars[n + 1]>>
    ELSE Append(DecStr(n \div 10), DigitChars[(n % 10) + 1])

\* str(constraintVar): the name of the variable, IDENT_CONSTRAINT and the
\* number for the indicator of a constraint, another name (p) for the first
\* child of a child that is no equivalence.
VarStr(lhs) == IF lhs = 0 THEN <<"p">> ELSE IDENT_CONSTRAINT \o DecStr(lhs)

IsDigit(ch) == \E d \in 1..10 : DigitChars[d] = ch

\* int(text) raises ValueError for a text that is no decimal number.
PyIntRaises(text) == text = <<>> \/ \E i \in 1..Len(text) : ~IsDigit(text[i])

\* int(text): the number written in decimal.
RECURSIVE PyInt(_)
PyInt(text) ==
    IF PyIntRaises(text) THEN 0
    ELSE LET last == (CHOOSE d \in 1..10 : DigitChars[d] = text[Len(text)]) - 1
         IN IF Len(text) = 1 THEN last
            ELSE PyInt(SubSeq(text, 1, Len(text) - 1)) * 10 + last

\* constraintNumStr[len(config.IDENT_CONSTRAINT):]
AfterPrefix(text) == SubSeq(text, Len(IDENT_CONSTRAINT) + 1, Len(text))

\* The conversion of line 66 raises for some name of the core.
UnsatCoreRaises(core) == \E i \in 1..Len(core) : PyIntRaises(AfterPrefix(VarStr(core[i])))

UnsatCoreIds_Positions(core) == [i \in 1..Len(core) |-> i]

\* Lines 65-67: the core as names, then as the numbers after the prefix.
UnsatCoreIds(core) ==
    LET unsatCore == [i \in 1..Len(core) |-> VarStr(core[i])]
    IN [i \in 1..Len(unsatCore) |-> PyInt(AfterPrefix(unsatCore[i]))]

Z3Labelling_UnknownAsUnsat(result, core) ==
    IF result = "sat"
    THEN {Outcome(<<LabelCall("labelSat", <<"z3model">>)>>, "none"),
          Outcome(<<>>, "ModelError")}
    ELSE IF UnsatCoreRaises(core)
         THEN {Outcome(<<>>, "ValueError")}
         ELSE {Outcome(<<LabelCall("labelUnsat", UnsatCoreIds(core))>>, "none")}

\* Lines 61-70 of Z3Solver.checkSat on the solver's answer.  A core token
\* that is no indicator variable has no number after the prefix: int()
\* raises ValueError.
Z3Labelling(result, core) ==
    IF result = "sat"
    THEN {Outcome(<<LabelCall("labelSat", <<"z3model">>)>>, "none"),
          Outcome(<<>>, "ModelError")}
    ELSE IF result = "unsat"
    THEN IF UnsatCoreRaises(core)
         THEN {Outcome(<<>>, "ValueError")}
         ELSE {Outcome(<<LabelCall("labelUnsat", UnsatCoreIds(core))>>, "none")}
    ELSE {Outcome(<<LabelCall("labelUnknown", <<>>)>>, "none")}

(***************************************************************************)
(* Initial state                                                           *)
(***************************************************************************)
NoGet == [kind |-> "none"]

SolverInit ==
    /\ adapter \in {[kind |-> "z3", satSolver |-> LINGELING]}
                   \cup {[kind |-> "boolector", satSolver |-> s] : s \in SatSolverArgs}
    /\ query = NewQueryObj
    /\ pc = "idle"
    /\ labels = <<>>
    /\ err = "none"
    /\ fileExists = FALSE
    /\ fileText = "none"
    /\ proc = "none"
    /\ spawns = 0
    /\ exitCode = 0
    /\ output = <<>>
    /\ outputLines = <<>>
    /\ z3 = NoZ3

ParserInit ==
    /\ allAssignments = <<>>
    /\ allMappings = <<>>
    /\ arrayTempIndexVals = <<>>
    /\ stack = [active |-> FALSE, name |-> "", pending |-> <<>>,
                cur |-> [cls |-> "None", n |-> 0, fn |-> "", outputs |-> <<>>, dflt |-> <<>>]]
    /\ src = <<>>
    /\ addLog = <<>>
    /\ lastGet = NoGet

Threads == 1..MaxThreads

\* The first child of each equivalence of the query of every thread: the
\* indicators of constraints 1 and 2.
ThreadConstraintVars == <<1, 2>>

\* What Z3 answers to the query of a thread when nothing disturbs it.
Z3Answers ==
    {[result |-> "sat", core |-> <<>>], [result |-> "unknown", core |-> <<>>]}
    \cup {[result |-> "unsat", core |-> c] : c \in Cores(ThreadConstraintVars) \ {<<>>}}

NoAnswer == [result |-> "none", core |-> <<>>]

\* A thread that has not called checkSat yet, with its own Query.
NoCall(answer) ==
    [pc |-> "idle", query |-> NewQueryObj, labels |-> <<>>, err |-> "none",
     file |-> 0, proc |-> "none", outputLines |-> <<>>,
     result |-> "none", core |-> <<>>, answer |-> answer]

NoMainCtx == [inside |-> {}, raced |-> FALSE]

\* No thread calls checkSat.
ConcIdle ==
    /\ threads = [t \in Threads |-> NoCall(NoAnswer)]
    /\ files = <<>>
    /\ mainCtx = NoMainCtx

NoHist == [pc |-> "idle"]
NoMain == [pc |-> "idle"]
NoSim == [pc |-> "idle"]
NoNaming == [pc |-> "idle"]
NoPacking == [pc |-> "idle"]

\* No tool of analyzeProject runs.
ToolIdle ==
    /\ hist = NoHist
    /\ mainRun = NoMain
    /\ sim = NoSim
    /\ naming = NoNaming
    /\ packing = NoPacking

Init == SolverInit /\ ParserInit /\ ConcIdle /\ ToolIdle

(***************************************************************************)
(* The caller                                                              *)
(***************************************************************************)
\* checkSat is called on a pending query.
Call ==
    /\ pc = "idle"
    /\ query.status = "Pending"
    /\ pc' = IF adapter.kind = "z3" THEN "z_parse" ELSE "b_create"
    /\ UNCHANGED <<adapter, query, labels, err, fileExists, fileText, proc, spawns,
                   exitCode, output, outputLines, z3>>
    /\ UNCHANGED parserVars
    /\ UNCHANGED concVars
    /\ UNCHANGED toolVars

\* The caller drops the query and makes the next one.
NewQuery ==
    /\ pc \in {"returned", "raised"}
    /\ pc' = "idle"
    /\ query' = NewQueryObj
    /\ labels' = <<>>
    /\ err' = "none"
    /\ fileExists' = FALSE
    /\ fileText' = "none"
    /\ proc' = "none"
    /\ spawns' = 0
    /\ exitCode' = 0
    /\ output' = <<>>
    /\ outputLines' = <<>>
    /\ z3' = NoZ3
    /\ UNCHANGED adapter
    /\ UNCHANGED parserVars
    /\ UNCHANGED concVars
    /\ UNCHANGED toolVars

(***************************************************************************)
(* BoolectorSolver.checkSat                                                *)
(***************************************************************************)
\* smtQueryFileHandler = NamedTemporaryFile(): before the with block.
B_Create ==
    /\ pc = "b_create"
    /\ \/ /\ fileExists' = TRUE
          /\ pc' = "b_write"
          /\ err' = "none"
       \/ /\ fileExists' = FALSE
          /\ pc' = "raised"
          /\ err' = "OSError"
    /\ UNCHANGED <<adapter, query, labels, fileText, proc, spawns, exitCode, output,
                   outputLines, z3>>
    /\ UNCHANGED parserVars
    /\ UNCHANGED concVars
    /\ UNCHANGED toolVars

\* write(query.queryStr); seek(0)
B_Write ==
    /\ pc = "b_write"
    /\ \/ /\ fileText' = "queryStr"
          /\ pc' = "b_command"
          /\ err' = "none"
       \/ /\ fileText' = fileText
          /\ pc' = "b_exit"
          /\ err' = "IOError"
    /\ UNCHANGED <<adapter, query, labels, fileExists, proc, spawns, exitCode, output,
                   outputLines, z3>>
    /\ UNCHANGED parserVars
    /\ UNCHANGED concVars
    /\ UNCHANGED toolVars

\* command = self._generateBoolectorCommand(smtQueryFileHandler.name)
B_Command ==
    /\ pc = "b_command"
    /\ IF generateBoolectorCommand(adapter.satSolver, "tmp") = <<GameTimeError>>
       THEN pc' = "b_exit" /\ err' = GameTimeError
       ELSE pc' = "b_spawn" /\ err' = "none"
    /\ UNCHANGED <<adapter, query, labels, fileExists, fileText, proc, spawns, exitCode,
                   output, outputLines, z3>>
    /\ UNCHANGED parserVars
    /\ UNCHANGED concVars
    /\ UNCHANGED toolVars

B_Spawn_Retry ==
    /\ pc = "b_spawn"
    /\ proc' = "running"
    /\ spawns' = spawns + 1
    /\ pc' = IF spawns = 0 THEN "b_spawn" ELSE "b_read"
    /\ err' = "none"
    /\ UNCHANGED <<adapter, query, labels, fileExists, fileText, exitCode, output,
                   outputLines, z3>>
    /\ UNCHANGED parserVars
    /\ UNCHANGED concVars
    /\ UNCHANGED toolVars

\* proc = subprocess.Popen(command, ...)
B_Spawn ==
    /\ pc = "b_spawn"
    /\ \/ /\ proc' = "running"
          /\ spawns' = spawns + 1
          /\ pc' = "b_read"
          /\ err' = "none"
       \/ /\ proc' = proc
          /\ spawns' = spawns
          /\ pc' = "b_exit"
          /\ err' = "OSError"
    /\ UNCHANGED <<adapter, query, labels, fileExists, fileText, exitCode, output,
                   outputLines, z3>>
    /\ UNCHANGED parserVars
    /\ UNCHANGED concVars
    /\ UNCHANGED toolVars

\* output = proc.communicate()[0]; outputLines = output.strip().split("\n").
\* communicate returns once the process has exited, whatever its exit status,
\* which checkSat never reads.  When communicate raises, nothing waits for
\* the process or kills it: it is left running or has exited.
B_Read ==
    /\ pc = "b_read"
    /\ \/ \E o \in Outputs, c \in ExitCodes :
            /\ output' = o
            /\ outputLines' = StripSplit(o)
            /\ exitCode' = c
            /\ proc' = "exited"
            /\ pc' = "b_label"
            /\ err' = "none"
       \/ /\ proc' \in {"running", "exited"}
          /\ pc' = "b_exit"
          /\ err' = "IOError"
          /\ UNCHANGED <<output, outputLines, exitCode>>
    /\ UNCHANGED <<adapter, query, labels, fileExists, fileText, spawns, z3>>
    /\ UNCHANGED parserVars
    /\ UNCHANGED concVars
    /\ UNCHANGED toolVars

\* Lines 134-141.
B_Label ==
    /\ pc = "b_label"
    /\ \E o \in BoolectorLabelling(outputLines) :
         /\ query' = Invoke(query, o.calls)
         /\ labels' = labels \o Methods(o.calls)
         /\ err' = o.err
    /\ pc' = "b_exit"
    /\ UNCHANGED <<adapter, fileExists, fileText, proc, spawns, exitCode, output,
                   outputLines, z3>>
    /\ UNCHANGED parserVars
    /\ UNCHANGED concVars
    /\ UNCHANGED toolVars

\* The with block is left, normally or by an exception: the file handler
\* closes and deletes the temporary file.
B_Exit ==
    /\ pc = "b_exit"
    /\ fileExists' = FALSE
    /\ pc' = IF err = "none" THEN "returned" ELSE "raised"
    /\ UNCHANGED <<adapter, query, labels, err, fileText, proc, spawns, exitCode, output,
                   outputLines, z3>>
    /\ UNCHANGED parserVars
    /\ UNCHANGED concVars
    /\ UNCHANGED toolVars

(***************************************************************************)
(* Z3Solver.checkSat                                                       *)
(***************************************************************************)
\* solver = z3.Solver(); queryExpr = z3.parse_smt2_string(query.queryStr)
Z_Parse ==
    /\ pc = "z_parse"
    /\ \/ \E e \in Exprs :
            /\ z3' = [z3 EXCEPT !.queryExpr = e]
            /\ pc' = "z_validate"
            /\ err' = "none"
       \/ /\ z3' = z3
          /\ pc' = "raised"
          /\ err' = "Z3Exception"
    /\ UNCHANGED <<adapter, query, labels, fileExists, fileText, proc, spawns, exitCode,
                   output, outputLines>>
    /\ UNCHANGED parserVars
    /\ UNCHANGED concVars
    /\ UNCHANGED toolVars

\* Lines 44-47.
Z_Validate ==
    /\ pc = "z_validate"
    /\ IF Z3Shape(z3.queryExpr) = "ok"
       THEN pc' = "z_assert" /\ err' = "none"
       ELSE pc' = "raised" /\ err' = Z3Shape(z3.queryExpr)
    /\ UNCHANGED <<adapter, query, labels, fileExists, fileText, proc, spawns, exitCode,
                   output, outputLines, z3>>
    /\ UNCHANGED parserVars
    /\ UNCHANGED concVars
    /\ UNCHANGED toolVars

\* Lines 52-58: every child but the last is asserted; the first child of
\* each becomes an assumption (a leaf has none: IndexError).
Z_Assert ==
    /\ pc = "z_assert"
    /\ LET eqs == Equivalences(z3.queryExpr)
       IN IF \E i \in 1..Len(eqs) : eqs[i].kind = "atom"
          THEN /\ z3' = [z3 EXCEPT !.asserted = eqs]
               /\ pc' = "raised"
               /\ err' = "IndexError"
          ELSE /\ z3' = [z3 EXCEPT !.asserted = eqs,
                                   !.constraintVars = [i \in 1..Len(eqs) |-> eqs[i].lhs]]
               /\ pc' = "z_check"
               /\ err' = "none"
    /\ UNCHANGED <<adapter, query, labels, fileExists, fileText, proc, spawns, exitCode,
                   output, outputLines>>
    /\ UNCHANGED parserVars
    /\ UNCHANGED concVars
    /\ UNCHANGED toolVars

\* querySatResult = solver.check(*constraintVars), and the core Z3 holds
\* after an unsat answer.
Z_Check ==
    /\ pc = "z_check"
    /\ \/ /\ z3' = [z3 EXCEPT !.result = "sat"]
          /\ pc' = "z_label"
          /\ err' = "none"
       \/ /\ z3' = [z3 EXCEPT !.result = "unknown"]
          /\ pc' = "z_label"
          /\ err' = "none"
       \/ \E c \in Cores(z3.constraintVars) :
            /\ z3.asserted # <<>>
            /\ c = <<>> => CanBeUnsatAlone(z3.asserted)
            /\ z3' = [z3 EXCEPT !.result = "unsat", !.core = c]
            /\ pc' = "z_label"
            /\ err' = "none"
       \/ /\ z3' = z3
          /\ pc' = "raised"
          /\ err' = "Z3Exception"
    /\ UNCHANGED <<adapter, query, labels, fileExists, fileText, proc, spawns, exitCode,
                   output, outputLines>>
    /\ UNCHANGED parserVars
    /\ UNCHANGED concVars
    /\ UNCHANGED toolVars

\* Lines 61-70.
Z_Label ==
    /\ pc = "z_label"
    /\ \E o \in Z3Labelling(z3.result, z3.core) :
         /\ query' = Invoke(query, o.calls)
         /\ labels' = labels \o Methods(o.calls)
         /\ err' = o.err
         /\ pc' = IF o.err = "none" THEN "returned" ELSE "raised"
    /\ UNCHANGED <<adapter, fileExists, fileText, proc, spawns, exitCode, output,
                   outputLines, z3>>
    /\ UNCHANGED parserVars
    /\ UNCHANGED concVars
    /\ UNCHANGED toolVars

(***************************************************************************)
(* Specification of the adapters                                           *)
(***************************************************************************)
Next ==
    \/ Call
    \/ NewQuery
    \/ B_Create
    \/ B_Write
    \/ B_Command
    \/ B_Spawn
    \/ B_Read
    \/ B_Label
    \/ B_Exit
    \/ Z_Parse
    \/ Z_Validate
    \/ Z_Assert
    \/ Z_Check
    \/ Z_Label

Spec == Init /\ [][Next]_vars

(***************************************************************************)
(* The adapters with a caller that passes a query again                    *)
(***************************************************************************)
\* A query that has been labelled by one call only.
LabelledOnce ==
    \/ query.status = "Sat" /\ ~query.hasCore
    \/ query.status = "Unsat" /\ ~query.hasModel
    \/ query.status = "Unknown" /\ ~query.hasModel /\ ~query.hasCore

\* checkSat is called on the query of the call before, which that call
\* labelled: neither checkSat reads the status of its argument.  The locals
\* of the new call are fresh; Z3 parses the same text into the same
\* expression as before.
CallAgain ==
    /\ pc = "returned"
    /\ LabelledOnce
    /\ pc' = IF adapter.kind = "z3" THEN "z_validate" ELSE "b_create"
    /\ labels' = <<>>
    /\ err' = "none"
    /\ fileExists' = FALSE
    /\ fileText' = "none"
    /\ proc' = "none"
    /\ spawns' = 0
    /\ exitCode' = 0
    /\ output' = <<>>
    /\ outputLines' = <<>>
    /\ z3' = [NoZ3 EXCEPT !.queryExpr = z3.queryExpr]
    /\ UNCHANGED <<adapter, query>>
    /\ UNCHANGED parserVars
    /\ UNCHANGED concVars
    /\ UNCHANGED toolVars

NextReuse ==
    \/ Next
    \/ CallAgain

SpecReuse == Init /\ [][NextReuse]_vars

(***************************************************************************)
(* Objects of the model parser                                             *)
(*                                                                         *)
(* Every Python value a lookup can meet is a record of one shape:          *)
(*   cls      "None", "int", "Z3Array", "Z3ConstantFunction", "Z3Function" *)
(*            or the name of an exception raised instead of a value        *)
(*   n        the number, for an int                                       *)
(*   fn       functionName, for a Z3Array                                  *)
(*   outputs  the dictionary Mapping.outputs                               *)
(*   dflt     <<defaultOutput>>, for a function                            *)
(***************************************************************************)
Obj(cls, n, fn, outputs, dflt) ==
    [cls |-> cls, n |-> n, fn |-> fn, outputs |-> outputs, dflt |-> dflt]

None == Obj("None", 0, "", <<>>, <<>>)

Num(v) == Obj("int", v, "", <<>>, <<>>)

Raise(exc) == Obj(exc, 0, "", <<>>, <<>>)

Exceptions == {"KeyError", "AttributeError", "IndexError", "ValueError"}

\* Z3Array(self, functionName=p[4])
Z3Array(functionName) == Obj("Z3Array", 0, functionName, <<>>, <<>>)

\* Z3ConstantFunction(self, name, defaultOutput)
Z3ConstantFunction(defaultOutput) ==
    Obj("Z3ConstantFunction", 0, "", <<>>, <<defaultOutput>>)

\* Z3Function(self, defaultOutput=...)
Z3Function(defaultOutput) == Obj("Z3Function", 0, "", <<>>, <<defaultOutput>>)

Mapping_add_KeepEarlier(self, inputVal, outputVal) ==
    [self EXCEPT !.outputs =
        [k \in (DOMAIN self.outputs) \cup {inputVal} |->
            IF k \in DOMAIN self.outputs THEN self.outputs[k] ELSE outputVal]]

\* Mapping.add: outputs[inputVal] = outputVal
Mapping_add(self, inputVal, outputVal) ==
    [self EXCEPT !.outputs =
        [k \in (DOMAIN self.outputs) \cup {inputVal} |->
            IF k = inputVal THEN outputVal ELSE self.outputs[k]]]

Z3ConstantFunction_get_Zero(self, inputVal) == Num(0)

\* Z3ConstantFunction.get
Z3ConstantFunction_get(self, inputVal) == self.dflt[1]

Z3Function_get_DefaultOnly(self, inputVal) ==
    IF self.dflt[1] # None THEN Z3ConstantFunction_get(self.dflt[1], inputVal) ELSE Num(0)

\* Z3Function.get: outputs.get(inputVal, <default>), the default computed
\* first, from defaultOutput.get or as 0.  defaultOutput is None or the
\* Z3ConstantFunction that p_func_ite_else made.
Z3Function_get(self, inputVal) ==
    LET default == IF self.dflt[1] # None
                   THEN Z3ConstantFunction_get(self.dflt[1], inputVal)
                   ELSE Num(0)
    IN IF inputVal \in DOMAIN self.outputs THEN self.outputs[inputVal] ELSE default

\* z3Function.get(...) on an element of allMappings that an array names.
Function_get(f, inputVal) ==
    IF f.cls = "Z3ConstantFunction" THEN Z3ConstantFunction_get(f, inputVal)
    ELSE Z3Function_get(f, inputVal)

(***************************************************************************)
(* Index packing                                                           *)
(***************************************************************************)
\* config.WORD_BITSIZE, as in the example of the specification
WORD_BITSIZE == 8

\* Hexadecimal text is a sequence of digits 0..15, most significant first.
RECURSIVE decToHex(_)
decToHex(n) == IF n < 16 THEN <<n>> ELSE Append(decToHex(n \div 16), n % 16)

RECURSIVE hexToDec(_)
hexToDec(h) ==
    IF h = <<>> THEN 0 ELSE hexToDec(SubSeq(h, 1, Len(h) - 1)) * 16 + h[Len(h)]

zfill_None(h, width) == h

\* str.zfill: zeros in front up to the width, nothing cut.
zfill(h, width) ==
    IF Len(h) >= width THEN h
    ELSE [i \in 1..width |-> IF i <= width - Len(h) THEN 0 ELSE h[i - (width - Len(h))]]

RECURSIVE HexIndices_NoPad(_)
HexIndices_NoPad(indices) ==
    IF indices = <<>> THEN <<>>
    ELSE decToHex(Head(indices)) \o HexIndices_NoPad(Tail(indices))

\* Lines 109-113: hexIndices after the loop.
RECURSIVE HexIndices(_)
HexIndices(indices) ==
    IF indices = <<>> THEN <<>>
    ELSE zfill(decToHex(Head(indices)), WORD_BITSIZE \div 4) \o HexIndices(Tail(indices))

(***************************************************************************)
(* Z3Array.get                                                             *)
(***************************************************************************)
\* What a lookup gives: the value returned (or the exception raised) and the
\* single-dimension lookups z3Function.get(key) made on the way, in order.
Res(val, trace) == [val |-> val, trace |-> trace]

RECURSIVE Z3Array_get(_, _, _, _)

Z3Array_get_LastIndexFirst(self, indices, nested, M) ==
    IF ~nested /\ indices = <<>> THEN Res(Raise("ValueError"), <<>>)
    ELSE LET ix == IF ~nested THEN <<hexToDec(HexIndices(indices))>> ELSE indices
         IN IF self.fn \notin DOMAIN M THEN Res(Raise("KeyError"), <<>>)
            ELSE IF Len(ix) = 1
            THEN Res(Function_get(M[self.fn], ix[1]), <<<<self.fn, ix[1]>>>>)
            ELSE IF ix = <<>> THEN Res(Raise("IndexError"), <<>>)
            ELSE LET last == ix[Len(ix)]
                     nestedZ3Function == Function_get(M[self.fn], last)
                 IN IF nestedZ3Function.cls # "Z3Array"
                    THEN Res(Raise("AttributeError"), <<<<self.fn, last>>>>)
                    ELSE LET r == Z3Array_get(nestedZ3Function,
                                              SubSeq(ix, 1, Len(ix) - 1), nested, M)
                         IN Res(r.val, <<<<self.fn, last>>>> \o r.trace)

\* Z3Array.get(indices, projectConfig), nested being
\* projectConfig.MODEL_AS_NESTED_ARRAYS and M being modelParser.allMappings.
\* hexToDec of the empty text (no index) raises ValueError; a missing
\* function is a KeyError; indices[0] of () an IndexError; .get on a number
\* an AttributeError.
Z3Array_get(self, indices, nested, M) ==
    IF ~nested /\ indices = <<>> THEN Res(Raise("ValueError"), <<>>)
    ELSE LET ix == IF ~nested THEN <<hexToDec(HexIndices(indices))>> ELSE indices
         IN IF self.fn \notin DOMAIN M THEN Res(Raise("KeyError"), <<>>)
            ELSE IF Len(ix) = 1
            THEN Res(Function_get(M[self.fn], ix[1]), <<<<self.fn, ix[1]>>>>)
            ELSE IF ix = <<>> THEN Res(Raise("IndexError"), <<>>)
            ELSE LET nestedZ3Function == Function_get(M[self.fn], ix[1])
                 IN IF nestedZ3Function.cls # "Z3Array"
                    THEN Res(Raise("AttributeError"), <<<<self.fn, ix[1]>>>>)
                    ELSE LET r == Z3Array_get(nestedZ3Function, Tail(ix), nested, M)
                         IN Res(r.val, <<<<self.fn, ix[1]>>>> \o r.trace)

(***************************************************************************)
(* Model texts                                                             *)
(***************************************************************************)
\* longest if-then-else chain of a function definition
MaxChain == 2
\* most indices of an array lookup
MaxDims == 2

ArrayNames == {"a"}
\* k!0 and k!1 get definitions; k!2 is referred to and never defined.
FunctionNames == {"k!0", "k!1"}
AsArrayNames == {"k!0", "k!2"}
NestedAsArrayNames == {"k!1", "k!2"}

\* Numbers in the conditions of a chain, and as outputs.
ConditionKeys == {1, 2, 258}
ConditionKeysOf(name) == IF name = "k!1" THEN {2} ELSE {1, 258}
Numbers == {1, 2}

\* The outputs a function definition may have: k!1 maps to numbers, k!0 to
\* numbers or to arrays (a function that underlies a two-dimensional array).
OutputsOf(name) ==
    IF name = "k!1" THEN {{Num(v) : v \in Numbers}}
    ELSE {{Num(v) : v \in Numbers}, {Z3Array(f) : f \in NestedAsArrayNames}}

DefaultOf(V) == IF Num(1) \in V THEN Num(3) ELSE Z3Array("k!1")

Cond(k, v) == [k |-> k, v |-> v]

\* ite(x=K1, V1, ite(x=K2, V2, ... D)): the conditions, outermost first, and D.
Chain(conds, d) == [conds |-> conds, d |-> d]

Chains(name) ==
    UNION {{Chain(c, DefaultOf(V)) :
              c \in {s \in SeqsUpTo([k : ConditionKeysOf(name), v : V], MaxChain) :
                       Len(s) >= 1}}
           : V \in OutputsOf(name)}

Constants(name) == UNION {V \cup {DefaultOf(V)} : V \in OutputsOf(name)}

IndexValues == {1, 2}
IndexTuples == SeqsUpTo(IndexValues, MaxDims)
LookupKeys == ConditionKeys

NoStack == [active |-> FALSE, name |-> "", pending |-> <<>>, cur |-> None]
NoSrc == [kind |-> "none", chain |-> Chain(<<>>, None), pos |-> 0]

\* dict[key] = value
Put(dict, key, value) ==
    [k \in (DOMAIN dict) \cup {key} |-> IF k = key THEN value ELSE dict[k]]

(***************************************************************************)
(* Grammar actions of Z3ModelParser                                        *)
(***************************************************************************)
\* The model text is parsed before any lookup is made on it, and defines each
\* name once.
Parsing == lastGet = NoGet

Defined(name) == name \in DOMAIN src

\* The place in the model text of the definition that follows those parsed.
NextPos(text) == Cardinality(DOMAIN text) + 1

p_assign_array_var_Eager ==
    /\ Parsing /\ ~stack.active
    /\ \E name \in ArrayNames, f \in AsArrayNames :
         /\ ~Defined(name)
         /\ allMappings' = Put(allMappings, name,
                               Z3Array(IF f \in DOMAIN allMappings THEN f ELSE "k!2"))
         /\ src' = Put(src, name, [kind |-> "array", chain |-> Chain(<<>>, Z3Array(f)),
                                  pos |-> NextPos(src)])
    /\ UNCHANGED <<allAssignments, arrayTempIndexVals, stack, addLog, lastGet>>
    /\ UNCHANGED solverVars
    /\ UNCHANGED concVars
    /\ UNCHANGED toolVars

\* p_z3_func_as_array, p_assign_array_var
p_assign_array_var ==
    /\ Parsing /\ ~stack.active
    /\ \E name \in ArrayNames, f \in AsArrayNames :
         /\ ~Defined(name)
         /\ allMappings' = Put(allMappings, name, Z3Array(f))
         /\ src' = Put(src, name, [kind |-> "array", chain |-> Chain(<<>>, Z3Array(f)),
                                  pos |-> NextPos(src)])
    /\ UNCHANGED <<allAssignments, arrayTempIndexVals, stack, addLog, lastGet>>
    /\ UNCHANGED solverVars
    /\ UNCHANGED concVars
    /\ UNCHANGED toolVars

\* p_assign_z3_const_func_var
p_assign_z3_const_func_var ==
    /\ Parsing /\ ~stack.active
    /\ \E name \in FunctionNames :
         \E p3 \in Constants(name) :
            /\ ~Defined(name)
            /\ allMappings' = Put(allMappings, name, Z3ConstantFunction(p3))
            /\ src' = Put(src, name, [kind |-> "const", chain |-> Chain(<<>>, p3),
                                     pos |-> NextPos(src)])
    /\ UNCHANGED <<allAssignments, arrayTempIndexVals, stack, addLog, lastGet>>
    /\ UNCHANGED solverVars
    /\ UNCHANGED concVars
    /\ UNCHANGED toolVars

func_ite_KeepEarlier(p3, p4, p5) ==
    IF p3 \in DOMAIN p5.outputs THEN p5 ELSE Mapping_add(p5, p3, p4)

\* p_func_ite_else: the value of the innermost ite
func_ite_else(p3, p4, p5) == Mapping_add(Z3Function(Z3ConstantFunction(p5)), p3, p4)

\* p_func_ite: the value of an ite around the func_ite p5
func_ite(p3, p4, p5) == Mapping_add(p5, p3, p4)

\* The parser reduces a chain from the inside: p_func_ite_else runs on the
\* innermost ite of the definition's body.
p_func_ite_else ==
    /\ Parsing /\ ~stack.active
    /\ \E name \in FunctionNames :
         \E c \in Chains(name) :
            LET inner == c.conds[Len(c.conds)]
            IN /\ ~Defined(name)
               /\ stack' = [active |-> TRUE, name |-> name,
                            pending |-> SubSeq(c.conds, 1, Len(c.conds) - 1),
                            cur |-> func_ite_else(inner.k, inner.v, c.d)]
               /\ addLog' = <<inner>>
               /\ src' = Put(src, name, [kind |-> "ite", chain |-> c, pos |-> NextPos(src)])
    /\ UNCHANGED <<allAssignments, allMappings, arrayTempIndexVals, lastGet>>
    /\ UNCHANGED solverVars
    /\ UNCHANGED concVars
    /\ UNCHANGED toolVars

\* p_func_ite runs on each ite around it, the outermost last.
p_func_ite ==
    /\ Parsing /\ stack.active /\ stack.pending # <<>>
    /\ LET outer == stack.pending[Len(stack.pending)]
       IN /\ stack' = [stack EXCEPT
                          !.pending = SubSeq(stack.pending, 1, Len(stack.pending) - 1),
                          !.cur = func_ite(outer.k, outer.v, stack.cur)]
          /\ addLog' = Append(addLog, outer)
    /\ UNCHANGED <<allAssignments, allMappings, arrayTempIndexVals, src, lastGet>>
    /\ UNCHANGED solverVars
    /\ UNCHANGED concVars
    /\ UNCHANGED toolVars

\* p_assign_z3_func_var
p_assign_z3_func_var ==
    /\ Parsing /\ stack.active /\ stack.pending = <<>>
    /\ allMappings' = Put(allMappings, stack.name, stack.cur)
    /\ stack' = NoStack
    /\ UNCHANGED <<allAssignments, arrayTempIndexVals, src, addLog, lastGet>>
    /\ UNCHANGED solverVars
    /\ UNCHANGED concVars
    /\ UNCHANGED toolVars

(***************************************************************************)
(* Lookups on the parsed model                                             *)
(***************************************************************************)
Get(kind, name, key, indices, nested, res) ==
    [kind |-> kind, name |-> name, key |-> key, indices |-> indices,
     nested |-> nested, val |-> res.val, trace |-> res.trace]

\* allMappings[name].get(indices, projectConfig) on an array
LookupArray ==
    /\ Parsing /\ ~stack.active
    /\ \E name \in ArrayNames \cap DOMAIN allMappings :
         \E indices \in IndexTuples, nested \in BOOLEAN :
            lastGet' = Get("array", name, 0, indices, nested,
                           Z3Array_get(allMappings[name], indices, nested, allMappings))
    /\ UNCHANGED <<allAssignments, allMappings, arrayTempIndexVals, stack, src, addLog>>
    /\ UNCHANGED solverVars
    /\ UNCHANGED concVars
    /\ UNCHANGED toolVars

\* allMappings[name].get(key, projectConfig) on a function
LookupFunction ==
    /\ Parsing /\ ~stack.active
    /\ \E name \in FunctionNames \cap DOMAIN allMappings :
         \E key \in LookupKeys :
            lastGet' = Get("function", name, key, <<>>, FALSE,
                           Res(Function_get(allMappings[name], key), <<>>))
    /\ UNCHANGED <<allAssignments, allMappings, arrayTempIndexVals, stack, src, addLog>>
    /\ UNCHANGED solverVars
    /\ UNCHANGED concVars
    /\ UNCHANGED toolVars

InitParser ==
    /\ SolverInit
    /\ adapter.kind = "z3"
    /\ ParserInit
    /\ ConcIdle
    /\ ToolIdle

NextParser ==
    \/ p_assign_array_var
    \/ p_assign_z3_const_func_var
    \/ p_func_ite_else
    \/ p_func_ite
    \/ p_assign_z3_func_var
    \/ LookupArray
    \/ LookupFunction

SpecParser == InitParser /\ [][NextParser]_vars


(***************************************************************************)
(* Scalar definitions                                                      *)
(*                                                                         *)
(* The lexer (Z3ModelLexer) is not part of the sources at hand: a          *)
(* HEXNUMBER or BINNUMBER token carries the unsigned number its text       *)
(* writes.  The text of a literal is its sequence of digits, most          *)
(* significant first.                                                      *)
(***************************************************************************)
RECURSIVE binToDec(_)
binToDec(b) ==
    IF b = <<>> THEN 0 ELSE binToDec(SubSeq(b, 1, Len(b) - 1)) * 2 + b[Len(b)]

\* p[3] of the assign rules: the value of the token
TokenValue(tok) ==
    IF tok.type = "HEXNUMBER" THEN hexToDec(tok.text) ELSE binToDec(tok.text)

\* #x2a, #x01, #x02
HexLiterals == {<<2, 10>>, <<0, 1>>, <<0, 2>>}
\* #b00101010, #b00000001
BinLiterals == {<<0, 0, 1, 0, 1, 0, 1, 0>>, <<0, 0, 0, 0, 0, 0, 0, 1>>}

HexTokens == [type : {"HEXNUMBER"}, text : HexLiterals]
NumberTokens == HexTokens \cup [type : {"BINNUMBER"}, text : BinLiterals]

\* var_name
VarNames == {"x"}
\* temp_var: var_name LANGLE NUMBER RANGLE, as one text
TempVarNames == {"x<0>"}
\* index_var: TEMPINDEX NUMBER, p[0] is the number
IndexVarNumbers == {0, 1}
\* efc_var: EFC var_name AT NUMBER, as one text
EfcVarNames == {"efc:x@0"}

assign_KeepFirst(dict, p2, p3) == IF p2 \in DOMAIN dict THEN dict ELSE Put(dict, p2, p3)

\* self.allAssignments[p[2]] = p[3]  /  self.arrayTempIndexVals[p[2]] = p[3]
assign(dict, p2, p3) == Put(dict, p2, p3)

\* p_assign_var
p_assign_var ==
    /\ \E name \in VarNames, tok \in NumberTokens :
         /\ allAssignments' = assign(allAssignments, name, TokenValue(tok))
         /\ src' = Put(src, name, tok)
    /\ UNCHANGED <<allMappings, arrayTempIndexVals, stack, addLog, lastGet>>
    /\ UNCHANGED solverVars
    /\ UNCHANGED concVars
    /\ UNCHANGED toolVars

\* p_assign_temp_var
p_assign_temp_var ==
    /\ \E name \in TempVarNames, tok \in NumberTokens :
         /\ allAssignments' = assign(allAssignments, name, TokenValue(tok))
         /\ src' = Put(src, name, tok)
    /\ UNCHANGED <<allMappings, arrayTempIndexVals, stack, addLog, lastGet>>
    /\ UNCHANGED solverVars
    /\ UNCHANGED concVars
    /\ UNCHANGED toolVars

\* p_assign_index_var
p_assign_index_var ==
    /\ \E number \in IndexVarNumbers, tok \in HexTokens :
         arrayTempIndexVals' = assign(arrayTempIndexVals, number, TokenValue(tok))
    /\ UNCHANGED <<allAssignments, allMappings, stack, src, addLog, lastGet>>
    /\ UNCHANGED solverVars
    /\ UNCHANGED concVars
    /\ UNCHANGED toolVars

\* p_assign_efc_var
p_assign_efc_var ==
    /\ \E name \in EfcVarNames, tok \in NumberTokens :
         /\ allAssignments' = assign(allAssignments, name, TokenValue(tok))
         /\ src' = Put(src, name, tok)
    /\ UNCHANGED <<allMappings, arrayTempIndexVals, stack, addLog, lastGet>>
    /\ UNCHANGED solverVars
    /\ UNCHANGED concVars
    /\ UNCHANGED toolVars

\* Names of constraint variables (CONSTRAINT NUMBER) a model text defines.
ConstraintVarNames == {"c1", "c2"}

p_assign_constraint_var_Stored ==
    /\ \E name \in ConstraintVarNames :
         /\ allAssignments' = assign(allAssignments, name, 1)
         /\ src' = Put(src, name, [type |-> "TRUE", text |-> <<>>])
    /\ UNCHANGED <<allMappings, arrayTempIndexVals, stack, addLog, lastGet>>
    /\ UNCHANGED solverVars
    /\ UNCHANGED concVars
    /\ UNCHANGED toolVars

\* p_constraint_var, p_define_constraint_var, p_assign_constraint_var: every
\* rule gives None and nothing is stored.
p_assign_constraint_var ==
    /\ \E name \in ConstraintVarNames :
         src' = Put(src, name, [type |-> "TRUE", text |-> <<>>])
    /\ UNCHANGED <<allAssignments, allMappings, arrayTempIndexVals, stack, addLog,
                   lastGet>>
    /\ UNCHANGED solverVars
    /\ UNCHANGED concVars
    /\ UNCHANGED toolVars

NextScalars ==
    \/ p_assign_var
    \/ p_assign_temp_var
    \/ p_assign_index_var
    \/ p_assign_efc_var
    \/ p_assign_constraint_var

SpecScalars == InitParser /\ [][NextScalars]_vars

(***************************************************************************)
(* Concurrent checkSat calls through one adapter                           *)
(*                                                                         *)
(* Every thread calls checkSat once, on its own Query.  The locals of a    *)
(* call are the thread's; what the calls share is the adapter object, the  *)
(* temporary directory and, in Z3Solver, the default context of z3:        *)
(* z3.Solver() and z3.parse_smt2_string(...) are given no context and take *)
(* the process-wide one, and a z3 call runs without the interpreter lock.  *)
(* z3 does not allow two threads in one context at the same time: once     *)
(* that has happened the context is damaged and what a call on it returns  *)
(* is not determined.                                                      *)
(***************************************************************************)
\* Names NamedTemporaryFile can give: never one that exists.
FileNames == 1..MaxThreads

\* What the solver process prints: a model, unsat, neither.
ThreadOutputs == {<<"sat", "m">>, <<"unsat">>, <<"m">>}

Remove(dict, key) == [k \in (DOMAIN dict) \ {key} |-> dict[k]]

\* A call of thread t into z3 on the default context while another thread is
\* inside z3 on it.
Touch(t) == [mainCtx EXCEPT !.raced = @ \/ (mainCtx.inside \ {t}) # {}]

\* NamedTemporaryFile(): a name that no file of the directory has.
FreshFileName == FileNames \ DOMAIN files

\* Thread t calls adapter.checkSat(query).
T_Call(t) ==
    /\ threads[t].pc = "idle"
    /\ threads' = [threads EXCEPT ![t].pc =
                      IF adapter.kind = "z3" THEN "z_parse" ELSE "b_create"]
    /\ UNCHANGED <<files, mainCtx>>
    /\ UNCHANGED <<solverVars, parserVars, toolVars>>

\* smtQueryFileHandler = NamedTemporaryFile()
TB_Create(t) ==
    /\ threads[t].pc = "b_create"
    /\ \E name \in FreshFileName :
         /\ files' = Put(files, name, 0)
         /\ threads' = [threads EXCEPT ![t].pc = "b_write", ![t].file = name]
    /\ UNCHANGED mainCtx
    /\ UNCHANGED <<solverVars, parserVars, toolVars>>

\* write(query.queryStr); seek(0): the text of the query of thread t is t.
TB_Write(t) ==
    /\ threads[t].pc = "b_write"
    /\ files' = Put(files, threads[t].file, t)
    /\ threads' = [threads EXCEPT ![t].pc = "b_spawn"]
    /\ UNCHANGED mainCtx
    /\ UNCHANGED <<solverVars, parserVars, toolVars>>

\* command = self._generateBoolectorCommand(...); proc = subprocess.Popen(...)
TB_Spawn(t) ==
    /\ threads[t].pc = "b_spawn"
    /\ IF generateBoolectorCommand(adapter.satSolver, threads[t].file) = <<GameTimeError>>
       THEN threads' = [threads EXCEPT ![t].pc = "b_exit", ![t].err = GameTimeError]
       ELSE threads' = [threads EXCEPT ![t].pc = "b_read", ![t].proc = "running"]
    /\ UNCHANGED <<files, mainCtx>>
    /\ UNCHANGED <<solverVars, parserVars, toolVars>>

\* output = proc.communicate()[0]; outputLines = output.strip().split("\n")
TB_Read(t) ==
    /\ threads[t].pc = "b_read"
    /\ \E o \in ThreadOutputs :
         threads' = [threads EXCEPT ![t].pc = "b_label", ![t].proc = "exited",
                                    ![t].outputLines = StripSplit(o)]
    /\ UNCHANGED <<files, mainCtx>>
    /\ UNCHANGED <<solverVars, parserVars, toolVars>>

\* Lines 134-141.
TB_Label(t) ==
    /\ threads[t].pc = "b_label"
    /\ \E o \in BoolectorLabelling(threads[t].outputLines) :
         threads' = [threads EXCEPT ![t].pc = "b_exit",
                                    ![t].query = Invoke(@, o.calls),
                                    ![t].labels = @ \o Methods(o.calls),
                                    ![t].err = o.err]
    /\ UNCHANGED <<files, mainCtx>>
    /\ UNCHANGED <<solverVars, parserVars, toolVars>>

\* The with block is left: the file of the call is deleted.
TB_Exit(t) ==
    /\ threads[t].pc = "b_exit"
    /\ files' = Remove(files, threads[t].file)
    /\ threads' = [threads EXCEPT ![t].pc =
                      IF threads[t].err = "none" THEN "returned" ELSE "raised"]
    /\ UNCHANGED mainCtx
    /\ UNCHANGED <<solverVars, parserVars, toolVars>>

\* Lines 41-47: z3.Solver(), z3.parse_smt2_string; the query has the form
\* expected.
TZ_Parse(t) ==
    /\ threads[t].pc = "z_parse"
    /\ mainCtx' = Touch(t)
    /\ threads' = [threads EXCEPT ![t].pc = "z_assert"]
    /\ UNCHANGED files
    /\ UNCHANGED <<solverVars, parserVars, toolVars>>

\* Lines 52-58: solver.add for every equivalence.
TZ_Assert(t) ==
    /\ threads[t].pc = "z_assert"
    /\ mainCtx' = Touch(t)
    /\ threads' = [threads EXCEPT ![t].pc = "z_check"]
    /\ UNCHANGED files
    /\ UNCHANGED <<solverVars, parserVars, toolVars>>

\* Line 60: solver.check(*constraintVars) is entered.
TZ_CheckBegin(t) ==
    /\ threads[t].pc = "z_check"
    /\ mainCtx' = [Touch(t) EXCEPT !.inside = @ \cup {t}]
    /\ threads' = [threads EXCEPT ![t].pc = "z_checking"]
    /\ UNCHANGED files
    /\ UNCHANGED <<solverVars, parserVars, toolVars>>

\* Line 60: solver.check returns, and the core z3 holds after unsat.  In a
\* damaged context it returns any answer or raises.
TZ_CheckEnd(t) ==
    /\ threads[t].pc = "z_checking"
    /\ mainCtx' = [mainCtx EXCEPT !.inside = @ \ {t}]
    /\ IF mainCtx.raced
       THEN \/ \E a \in Z3Answers :
                 threads' = [threads EXCEPT ![t].pc = "z_label",
                                            ![t].result = a.result, ![t].core = a.core]
            \/ threads' = [threads EXCEPT ![t].pc = "raised", ![t].err = "Z3Exception"]
       ELSE threads' = [threads EXCEPT ![t].pc = "z_label",
                                       ![t].result = threads[t].answer.result,
                                       ![t].core = threads[t].answer.core]
    /\ UNCHANGED files
    /\ UNCHANGED <<solverVars, parserVars, toolVars>>

\* Lines 61-70.
TZ_Label(t) ==
    /\ threads[t].pc = "z_label"
    /\ mainCtx' = Touch(t)
    /\ \E o \in Z3Labelling(threads[t].result, threads[t].core) :
         threads' = [threads EXCEPT ![t].pc = IF o.err = "none" THEN "returned" ELSE "raised",
                                    ![t].query = Invoke(@, o.calls),
                                    ![t].labels = @ \o Methods(o.calls),
                                    ![t].err = o.err]
    /\ UNCHANGED files
    /\ UNCHANGED <<solverVars, parserVars, toolVars>>

InitConcurrent ==
    /\ SolverInit
    /\ ParserInit
    /\ ToolIdle
    /\ files = <<>>
    /\ mainCtx = NoMainCtx
    /\ threads \in [Threads -> {NoCall(a) : a \in IF adapter.kind = "z3"
                                                  THEN Z3Answers ELSE {NoAnswer}}]

NextConcurrent ==
    \E t \in Threads :
        \/ T_Call(t)
        \/ TB_Create(t)
        \/ TB_Write(t)
        \/ TB_Spawn(t)
        \/ TB_Read(t)
        \/ TB_Label(t)
        \/ TB_Exit(t)
        \/ TZ_Parse(t)
        \/ TZ_Assert(t)
        \/ TZ_CheckBegin(t)
        \/ TZ_CheckEnd(t)
        \/ TZ_Label(t)

SpecConcurrent == InitConcurrent /\ [][NextConcurrent]_vars

(***************************************************************************)
(* Properties of the adapters                                              *)
(***************************************************************************)
Finished == pc \in {"returned", "raised"}

BoolectorFinished == adapter.kind = "boolector" /\ Finished

\* The process was spawned and its output read to the end.
OutputRead == output # <<>>

NoToken(ls) == ~Contains(ls, "sat") /\ ~Contains(ls, "unsat")

\* Text equal up to the whitespace that ends it.
RStripText(ls) ==
    LET core == DropTrailingBlank(ls)
    IN IF core = <<>> THEN <<>>
       ELSE [i \in 1..Len(core) |-> IF i = Len(core) THEN rstrip(core[i]) ELSE core[i]]

\* C1: a checkSat call of either adapter that returns normally has invoked
\* exactly one of labelSat, labelUnsat, labelUnknown, exactly once.
C1_ExactlyOneLabel ==
    pc = "returned" =>
        /\ Len(labels) = 1
        /\ labels[1] \in {"labelSat", "labelUnsat", "labelUnknown"}

C1_Witness ==
    /\ pc = "returned"
    /\ adapter.kind = "z3"
    /\ labels = <<"labelUnsat">>
    /\ query.status = "Unsat"

\* C6 as stated: the label is decided on the lines of the solver's stdout:
\* a line equal to sat gives Sat with the lines after the first such line as
\* model text, sat before unsat; otherwise a line equal to unsat gives Unsat
\* with an empty core.
C6_Original ==
    (adapter.kind = "boolector" /\ pc = "returned") =>
        IF Contains(output, "sat")
        THEN /\ query.status = "Sat"
             /\ query.hasModel
             /\ query.model =
                  RStripText(SubSeq(output, IndexOf(output, "sat") + 1, Len(output)))
        ELSE IF Contains(output, "unsat")
        THEN query.status = "Unsat" /\ query.hasCore /\ query.core = <<>>
        ELSE TRUE

\* C6 amended: the label is decided on the lines of the stdout with the
\* whitespace at both ends of the whole output stripped first: a line equal
\* to sat gives Sat with the lines after the first such line as model text,
\* even when a line equal to unsat is present; otherwise a line equal to
\* unsat gives Unsat with an empty core.
C6_LabelFromStrippedLines ==
    (adapter.kind = "boolector" /\ pc = "returned") =>
        LET ls == StripSplit(output)
        IN IF \E i \in 1..Len(ls) : ls[i] = "sat"
           THEN /\ query.status = "Sat"
                /\ query.hasModel
                /\ labels = <<"labelSat">>
                /\ \E i \in 1..Len(ls) :
                     /\ ls[i] = "sat"
                     /\ \A j \in 1..(i - 1) : ls[j] # "sat"
                     /\ query.model = [k \in 1..(Len(ls) - i) |-> ls[i + k]]
           ELSE IF \E i \in 1..Len(ls) : ls[i] = "unsat"
           THEN /\ query.status = "Unsat"
                /\ labels = <<"labelUnsat">>
                /\ query.hasCore
                /\ query.core = <<>>
                /\ ~query.hasModel
           ELSE TRUE

C6_Witness ==
    /\ adapter.kind = "boolector"
    /\ pc = "returned"
    /\ output = <<" sat", "unsat", "m">>
    /\ query.status = "Sat"
    /\ query.model = <<"unsat", "m">>

\* C7 as stated: when no line of the solver's output equals sat or unsat,
\* checkSat labels the query Unknown, with no model and no core, and returns.
C7_Original ==
    (BoolectorFinished /\ OutputRead /\ NoToken(output)) =>
        /\ pc = "returned"
        /\ labels = <<"labelUnknown">>
        /\ query.status = "Unknown"
        /\ ~query.hasModel
        /\ ~query.hasCore

\* C7 amended: when no line of the solver's output, stripped of the
\* whitespace at its two ends, equals sat or unsat, checkSat labels the query
\* Unknown, with no model and no core, and returns normally.
C7_UnknownWhenNoToken ==
    (BoolectorFinished /\ OutputRead /\ NoToken(StripSplit(output))) =>
        /\ pc = "returned"
        /\ labels = <<"labelUnknown">>
        /\ query.status = "Unknown"
        /\ ~query.hasModel
        /\ ~query.hasCore

C7_Witness ==
    /\ adapter.kind = "boolector"
    /\ pc = "returned"
    /\ exitCode = 0
    /\ output = <<"m", "unsat ", "m">>
    /\ query.status = "Unknown"

\* C8 as stated: absence of both tokens in the output is an error: checkSat
\* raises instead of labelling the query.
C8_Original ==
    (BoolectorFinished /\ OutputRead /\ NoToken(output)) =>
        pc = "raised" /\ labels = <<>>

\* C8 amended: absence of both tokens among the lines of the stripped output
\* is no error: once such an output is read, checkSat raises nothing and the
\* query gets its label.
C8_NoErrorWhenNoToken ==
    (adapter.kind = "boolector" /\ pc \in {"b_exit", "returned", "raised"}
       /\ OutputRead /\ NoToken(StripSplit(output))) =>
        err = "none" /\ pc # "raised" /\ labels # <<>>

C8_Witness ==
    /\ adapter.kind = "boolector"
    /\ pc = "returned"
    /\ output = <<"">>
    /\ err = "none"
    /\ labels # <<>>

\* The solver run failed: Popen raised, or the process exited non-zero.
SolverRunFailed ==
    \/ spawns = 0 /\ fileText = "queryStr" /\ err = "OSError"
    \/ OutputRead /\ proc = "exited" /\ exitCode # 0

\* C9: a failed solver run (spawn failure, non-zero exit) surfaces as an
\* error: the query is not labelled Sat, Unsat or Unknown by that call.
C9_FailureIsAnError ==
    (BoolectorFinished /\ SolverRunFailed) =>
        /\ pc = "raised"
        /\ labels = <<>>
        /\ query.status = "Pending"

\* C10: however BoolectorSolver.checkSat finishes, its temporary query file
\* no longer exists and the process it spawned has terminated.
C10_FileAndProcessReleased ==
    BoolectorFinished => ~fileExists /\ proc # "running"

(***************************************************************************)
(* Properties of the parsed model                                          *)
(***************************************************************************)
\* The array or function the last lookup was made on.
Target == allMappings[lastGet.name]

\* The value of the first condition of a chain, outermost first, that tests
\* for key; the chain's final else-branch when none does.
RECURSIVE FirstMatch(_, _, _)
FirstMatch(conds, d, key) ==
    IF conds = <<>> THEN d
    ELSE IF Head(conds).k = key THEN Head(conds).v
    ELSE FirstMatch(Tail(conds), d, key)

NoExplicitOutput ==
    \/ /\ lastGet.kind = "function"
       /\ Target.cls = "Z3Function"
       /\ lastGet.key \notin DOMAIN Target.outputs
       /\ Target.dflt[1] = None
    \/ /\ lastGet.kind = "array"
       /\ lastGet.indices # <<>>
       /\ Target.fn \notin DOMAIN allMappings

\* C3: get on an input that is in no outputs and has no explicit default
\* returns 0 and does not raise, for Z3Function, Z3ConstantFunction and
\* Z3Array alike.
C3_TotalGet ==
    NoExplicitOutput => lastGet.val = Num(0)

\* The key the claim describes: the indices, each below 16^(WORD_BITSIZE/4),
\* as the digits of one number in that base, most significant first.
RECURSIVE PackedKey(_)
PackedKey(indices) ==
    IF indices = <<>> THEN 0
    ELSE PackedKey(SubSeq(indices, 1, Len(indices) - 1)) * 16^(WORD_BITSIZE \div 4)
         + indices[Len(indices)]

\* C4: with MODEL_AS_NESTED_ARRAYS false, Z3Array.get on (i_1,...,i_n), n >= 1,
\* makes exactly one single-dimension lookup, on the function the array names,
\* with the key that packs the indices (2 hexadecimal digits each for
\* WORD_BITSIZE 8, most significant first: (1,2) -> 258), and returns what
\* that lookup returns.
C4_PackedSingleLookup ==
    (lastGet.kind = "array" /\ ~lastGet.nested /\ lastGet.indices # <<>>
       /\ Target.fn \in DOMAIN allMappings) =>
        /\ lastGet.trace = <<<<Target.fn, PackedKey(lastGet.indices)>>>>
        /\ lastGet.val = Function_get(allMappings[Target.fn], PackedKey(lastGet.indices))

C4_Witness ==
    /\ lastGet.kind = "array"
    /\ ~lastGet.nested
    /\ lastGet.indices = <<1, 2>>
    /\ lastGet.trace = <<<<"k!0", 258>>>>
    /\ "k!0" \in DOMAIN allMappings
    /\ allMappings["k!0"].cls = "Z3Function"
    /\ 258 \in DOMAIN allMappings["k!0"].outputs
    /\ lastGet.val = allMappings["k!0"].outputs[258]

\* One single-dimension lookup of index i on what obj, an array, names.
SingleLookup(obj, i, M) ==
    IF obj.cls # "Z3Array" THEN Raise("AttributeError")
    ELSE IF obj.fn \notin DOMAIN M THEN Raise("KeyError")
    ELSE Function_get(M[obj.fn], i)

\* Successive single-dimension lookups, one per index, left to right, each
\* on the value the one before returned.
RECURSIVE LeftToRight(_, _, _, _)
LeftToRight(cur, trace, rest, M) ==
    IF rest = <<>> THEN Res(cur, trace)
    ELSE LET v == SingleLookup(cur, Head(rest), M)
             t == IF cur.cls = "Z3Array" /\ cur.fn \in DOMAIN M
                  THEN Append(trace, <<cur.fn, Head(rest)>>) ELSE trace
         IN IF v.cls \in Exceptions THEN Res(v, t) ELSE LeftToRight(v, t, Tail(rest), M)

\* C5: with MODEL_AS_NESTED_ARRAYS true, Z3Array.get on (i_1,...,i_n), n >= 1,
\* packs nothing: it looks i_1 up in the function the array names and
\* recurses on the Mapping it gets with (i_2,...,i_n); the result is that of
\* n successive single-dimension lookups taking the indices left to right.
C5_NestedLeftToRight ==
    (lastGet.kind = "array" /\ lastGet.nested /\ lastGet.indices # <<>>) =>
        LET r == LeftToRight(Target, <<>>, lastGet.indices, allMappings)
        IN lastGet.val = r.val /\ lastGet.trace = r.trace

C5_Witness ==
    /\ lastGet.kind = "array"
    /\ lastGet.nested
    /\ lastGet.indices = <<1, 2>>
    /\ lastGet.trace = <<<<"k!0", 1>>, <<"k!1", 2>>>>
    /\ lastGet.val = Num(2)
    /\ src["k!1"].kind = "ite"

(***************************************************************************)
(* Properties of the Z3 adapter                                            *)
(***************************************************************************)
\* The adapter is Z3Solver and the query text has been parsed and checked.
Z3Validated ==
    /\ adapter.kind = "z3"
    /\ z3.queryExpr.kind # "none"
    /\ pc # "z_validate"

\* The top-level node is no conjunction, or its last child is none.
Malformed(e) ==
    \/ e.kind # "and"
    \/ e.children # <<>> /\ e.children[Len(e.children)].kind # "and"

\* C11: when the parsed query's top-level node is not a conjunction or its
\* last child is not a conjunction, Z3Solver.checkSat raises GameTimeError,
\* asserts nothing, makes no solver check, invokes no label method and
\* leaves the query's status as it was.
C11_MalformedQueryRaises ==
    (Z3Validated /\ Malformed(z3.queryExpr)) =>
        /\ pc = "raised"
        /\ err = GameTimeError
        /\ z3.asserted = <<>> /\ z3.constraintVars = <<>> /\ z3.result = "none"
        /\ labels = <<>>
        /\ query = NewQueryObj

C11_Witness ==
    /\ Z3Validated
    /\ z3.queryExpr.kind = "and"
    /\ Len(z3.queryExpr.children) = 2
    /\ z3.queryExpr.children[2].kind = "iff"
    /\ pc = "raised"
    /\ err = GameTimeError

\* The status that goes with a result of solver.check.
StatusOf(result) ==
    IF result = "sat" THEN "Sat" ELSE IF result = "unsat" THEN "Unsat" ELSE "Unknown"

\* C12: after a checkSat call the query has a model attached iff its status
\* is Sat and an unsat core attached iff its status is Unsat (Unknown, and a
\* query left Pending by a call that raised, carry neither); a query that
\* Z3Solver.checkSat labelled has the status of the solver's result, and a
\* call of it that returns has labelled the query.
C12_StatusMatchesAttachments ==
    /\ Finished =>
         /\ query.hasModel <=> query.status = "Sat"
         /\ query.hasCore <=> query.status = "Unsat"
    /\ (Finished /\ adapter.kind = "z3" /\ query.status # "Pending") =>
         query.status = StatusOf(z3.result)
    /\ (pc = "returned" /\ adapter.kind = "z3") =>
         z3.result # "none" /\ query.status = StatusOf(z3.result)

C12_Witness ==
    /\ pc = "returned"
    /\ adapter.kind = "z3"
    /\ z3.result = "unknown"
    /\ query.status = "Unknown"
    /\ ~query.hasModel
    /\ ~query.hasCore

\* Z3Solver.checkSat has labelled the query Unsat.
Z3LabelledUnsat == adapter.kind = "z3" /\ Finished /\ query.status = "Unsat"

\* The constraint numbers of the equivalences of the query.
QueryConstraintIds ==
    {z3.queryExpr.children[k].lhs :
        k \in {j \in 1..Len(z3.queryExpr.children) : z3.queryExpr.children[j].kind = "iff"}}

\* C13: on an unsat result Z3Solver.checkSat gives labelUnsat the solver's
\* core as it is: one number per variable of the core, in the core's order,
\* each the number that follows config.IDENT_CONSTRAINT in the variable's
\* name, and each the number of an indicator variable that was passed as an
\* assumption, so a constraint number of the query.
C13_CorePassedThrough ==
    Z3LabelledUnsat =>
        /\ z3.result = "unsat"
        /\ Len(query.core) = Len(z3.core)
        /\ \A i \in 1..Len(z3.core) :
             /\ VarStr(z3.core[i]) = IDENT_CONSTRAINT \o DecStr(query.core[i])
             /\ query.core[i] = z3.core[i]
             /\ \E j \in 1..Len(z3.constraintVars) : z3.constraintVars[j] = query.core[i]
             /\ query.core[i] \in QueryConstraintIds

C13_Witness ==
    /\ Z3LabelledUnsat
    /\ z3.constraintVars = <<10 + MaxId, 1>>
    /\ query.core = <<10 + MaxId, 1>>

\* C14: whenever Z3Solver.checkSat labels a query Unsat, the core it passes
\* to labelUnsat is not empty.
C14_CoreNonEmpty ==
    Z3LabelledUnsat => query.core # <<>>

(***************************************************************************)
(* Properties of repeated calls                                            *)
(***************************************************************************)
\* C15: a Query is labelled at most once: checkSat of either adapter on a
\* query that is already labelled Sat, Unsat or Unknown fails and leaves the
\* query's status, model and unsat core as they are (the caller may only
\* replace the query by a new one).
C15_LabelledAtMostOnce ==
    [][query.status # "Pending" => (query' = query \/ query' = NewQueryObj)]_vars

(***************************************************************************)
(* Properties of the configuration                                         *)
(***************************************************************************)
\* C16: an unrecognized SAT back-end is rejected when the adapter is
\* configured, so no BoolectorSolver exists whose checkSat fails with the
\* configuration error (GameTimeError) of an unknown back-end.
C16_NoUnknownBackendAtSolveTime ==
    ~(adapter.kind = "boolector" /\ pc = "raised" /\ err = GameTimeError)

(***************************************************************************)
(* Properties of constant functions and scalar definitions                 *)
(***************************************************************************)
\* The function definitions whose body is a literal or an as-array reference.
ConstantFunctionNames == {name \in DOMAIN src : src[name].kind = "const"}

\* C17: a function defined by a bare literal or an as-array reference is
\* stored as a Mapping with no outputs whose defaultOutput is that literal
\* or that nested Mapping, and its get returns that output for every input,
\* called directly or through an array that names the function.
C17_ConstantFunction ==
    /\ \A name \in ConstantFunctionNames :
         /\ allMappings[name].cls = "Z3ConstantFunction"
         /\ allMappings[name].outputs = <<>>
         /\ allMappings[name].dflt = <<src[name].chain.d>>
    /\ (lastGet.kind = "function" /\ lastGet.name \in ConstantFunctionNames) =>
         lastGet.val = src[lastGet.name].chain.d
    /\ (lastGet.kind = "array" /\ Len(lastGet.indices) = 1
          /\ Target.fn \in ConstantFunctionNames) =>
         lastGet.val = src[Target.fn].chain.d

C17_Witness ==
    /\ lastGet.kind = "function"
    /\ lastGet.name \in ConstantFunctionNames
    /\ lastGet.key = 258
    /\ src[lastGet.name].chain.d = Z3Array("k!1")
    /\ lastGet.val = Z3Array("k!1")

\* C18: after parsing, no temp/array-index variable is a key of
\* allAssignments: a definition of name<index>, like one of the index marker
\* and a number (whose key is the number, in arrayTempIndexVals), is not
\* recorded as a scalar assignment.
C18_NoTempVarInAssignments ==
    \A key \in DOMAIN allAssignments : key \notin TempVarNames

\* The unsigned number a literal writes: each digit times its place value.
RECURSIVE PlaceValueSum(_, _, _)
PlaceValueSum(text, base, i) ==
    IF i > Len(text) THEN 0
    ELSE text[i] * base^(Len(text) - i) + PlaceValueSum(text, base, i + 1)

NumericValue(tok) == PlaceValueSum(tok.text, IF tok.type = "HEXNUMBER" THEN 16 ELSE 2, 1)

\* A literal of one word, in hexadecimal.
HexWord(tok) == tok.type = "HEXNUMBER" /\ Len(tok.text) = WORD_BITSIZE \div 4

\* C19: a scalar definition records under its name the unsigned number of
\* its literal, whatever the base (#x2a and #b00101010 both record 42), and
\* the number a hexadecimal literal gives is the key that index packing
\* computes: the recorded number packs to itself, and the literal made of the
\* texts of two one-word literals gives the packed key of their two numbers.
C19_ScalarValueOfLiteral ==
    /\ \A name \in DOMAIN allAssignments :
         /\ allAssignments[name] = NumericValue(src[name])
         /\ src[name].text \in {<<2, 10>>, <<0, 0, 1, 0, 1, 0, 1, 0>>} =>
              allAssignments[name] = 42
         /\ hexToDec(HexIndices(<<allAssignments[name]>>)) = allAssignments[name]
    /\ \A n1, n2 \in DOMAIN allAssignments :
         /\ NumericValue(src[n1]) = NumericValue(src[n2]) =>
              allAssignments[n1] = allAssignments[n2]
         /\ (HexWord(src[n1]) /\ HexWord(src[n2])) =>
              TokenValue([type |-> "HEXNUMBER", text |-> src[n1].text \o src[n2].text])
                = hexToDec(HexIndices(<<allAssignments[n1], allAssignments[n2]>>))

C19_Witness ==
    /\ "x" \in DOMAIN allAssignments
    /\ "efc:x@0" \in DOMAIN allAssignments
    /\ src["x"] = [type |-> "HEXNUMBER", text |-> <<2, 10>>]
    /\ src["efc:x@0"] = [type |-> "BINNUMBER", text |-> <<0, 0, 1, 0, 1, 0, 1, 0>>]
    /\ allAssignments["x"] = 42
    /\ allAssignments["efc:x@0"] = 42

(***************************************************************************)
(* Properties of concurrent calls                                          *)
(***************************************************************************)
\* How a call of thread t alone ends: the error it raises and its query.
SequentialEnds(t) ==
    LET outcomes == IF adapter.kind = "z3"
                    THEN Z3Labelling(threads[t].answer.result, threads[t].answer.core)
                    ELSE IF SatSolver_getName(adapter.satSolver) = GameTimeError
                    THEN {Outcome(<<>>, GameTimeError)}
                    ELSE BoolectorLabelling(threads[t].outputLines)
    IN {[err |-> o.err, query |-> Invoke(NewQueryObj, o.calls)] : o \in outcomes}

\* C20: checkSat writes no field of the adapter, and concurrent calls on
\* distinct queries through one adapter end, in any interleaving, as the
\* same calls made one after the other: each query gets the label of its own
\* solver run.
C20_ConcurrentAsSequential ==
    \A t \in Threads :
        threads[t].pc \in {"returned", "raised"} =>
            [err |-> threads[t].err, query |-> threads[t].query] \in SequentialEnds(t)

(***************************************************************************)
(* analyzeProject._getHistogramRange                                       *)
(***************************************************************************)
\* most paths handed to a tool
MaxPaths == 2

\* Values a path may carry.
PathValues == {-1, 0, 2}

\* Path objects, by the two fields the tools read and write.
PathObjs == [measuredValue : PathValues, predictedValue : PathValues]

PathLists == UNION {[1..n -> PathObjs] : n \in 0..MaxPaths}

\* Bounds a caller may pass: None (the default) or a number.
HistBounds == {None} \cup {Num(v) : v \in {-1, 0, 1, 3}}

\* Truth value of a bound in `lower or min(pathValues)`.
Truthy(bound) == bound # None /\ bound.n # 0

\* min(pathValues), max(pathValues) of a non-empty list
SeqMin(s) == CHOOSE v \in {s[i] : i \in DOMAIN s} : \A i \in DOMAIN s : v <= s[i]

SeqMax(s) == CHOOSE v \in {s[i] : i \in DOMAIN s} : \A i \in DOMAIN s : v >= s[i]

\* The values the histogram is made of.
HistPathValues(paths, measured) ==
    [i \in DOMAIN paths |-> IF measured THEN paths[i].measuredValue
                                         ELSE paths[i].predictedValue]

\* The warnings logged for paths outside the bounds provided.
HistWarnings(paths, lower, upper, measured) ==
    LET pathValues == HistPathValues(paths, measured)
    IN  {b \in {"lower"} : lower # None /\ \E i \in DOMAIN pathValues : pathValues[i] < lower.n}
        \cup {b \in {"upper"} : upper # None /\ \E i \in DOMAIN pathValues : pathValues[i] > upper.n}

\* _getHistogramRange: the pair returned, or the exception raised by min or
\* max of an empty list.
getHistogramRange(paths, lower, upper, measured) ==
    LET pathValues == HistPathValues(paths, measured)
    IN  IF lower = None \/ upper = None
        THEN IF pathValues = <<>> /\ (~Truthy(lower) \/ ~Truthy(upper))
             THEN [exc |-> "ValueError", range |-> <<>>]
             ELSE [exc |-> "none",
                   range |-> <<IF Truthy(lower) THEN lower.n ELSE SeqMin(pathValues),
                               IF Truthy(upper) THEN upper.n ELSE SeqMax(pathValues)>>]
        ELSE [exc |-> "none",
              range |-> IF lower.n <= upper.n THEN <<lower.n, upper.n>>
                                              ELSE <<upper.n, lower.n>>]

\* One call of _getHistogramRange from its entry to its return.
GetHistogramRange ==
    /\ hist.pc = "called"
    /\ LET r == getHistogramRange(hist.paths, hist.lower, hist.upper, hist.measured)
       IN  hist' = [hist EXCEPT !.pc = IF r.exc = "none" THEN "returned" ELSE "raised",
                                !.exc = r.exc,
                                !.range = r.range,
                                !.warnings = HistWarnings(hist.paths, hist.lower,
                                                          hist.upper, hist.measured)]
    /\ UNCHANGED <<mainRun, sim, naming, packing>>
    /\ UNCHANGED <<solverVars, parserVars, concVars>>

InitHistogram ==
    /\ SolverInit
    /\ adapter.kind = "z3"
    /\ ParserInit
    /\ ConcIdle
    /\ mainRun = NoMain
    /\ sim = NoSim
    /\ naming = NoNaming
    /\ packing = NoPacking
    /\ hist \in [pc : {"called"}, paths : PathLists, lower : HistBounds,
                 upper : HistBounds, measured : BOOLEAN, exc : {"none"},
                 range : {<<>>}, warnings : {{}}]

NextHistogram == GetHistogramRange

SpecHistogram == InitHistogram /\ [][NextHistogram]_vars

\* C21: _getHistogramRange returns (lower, upper) where a bound that is not
\* provided is the minimum (lower) or maximum (upper) of the path values, a
\* bound that is provided is returned as given, whatever number it is, when
\* the other bound is omitted, and two provided bounds come back in
\* ascending order.
C21_HistogramRange ==
    hist.pc = "returned" =>
        LET pathValues == HistPathValues(hist.paths, hist.measured)
        IN  /\ hist.lower = None => hist.range[1] = SeqMin(pathValues)
            /\ hist.upper = None => hist.range[2] = SeqMax(pathValues)
            /\ hist.lower # None /\ hist.upper = None => hist.range[1] = hist.lower.n
            /\ hist.upper # None /\ hist.lower = None => hist.range[2] = hist.upper.n
            /\ hist.lower # None /\ hist.upper # None =>
                   /\ hist.range[1] <= hist.range[2]
                   /\ {hist.range[1], hist.range[2]} = {hist.lower.n, hist.upper.n}

(***************************************************************************)
(* analyzeProject.main                                                     *)
(***************************************************************************)
\* argsAndPathTypes, in the order of the list (two of the five types)
PathTypes == <<"WORST_CASE", "BEST_CASE">>

\* The parsed command line, by the arguments main branches on; xmlFound is
\* what _findXmlFile finds at the location given.
MainArgs ==
    [overcomplete_basis : BOOLEAN, ob_extraction : BOOLEAN, basis : BOOLEAN,
     measure_tests : BOOLEAN, histogram : BOOLEAN,
     pathTypeArgs : [1..Len(PathTypes) -> BOOLEAN], xmlFound : BOOLEAN]

\* any(pathTypeArgs)
AnyPathType(args) == \E i \in DOMAIN args.pathTypeArgs : args.pathTypeArgs[i]

\* The calls one iteration of the loop over argsAndPathTypes makes.
PathTypeSteps(args, i) ==
    IF ~args.pathTypeArgs[i] THEN <<>>
    ELSE <<[call |-> "generatePaths", pathType |-> PathTypes[i],
            useObExtraction |-> args.ob_extraction]>>
         \o (IF args.histogram
             THEN <<[call |-> "createHistogramForPaths", pathType |-> PathTypes[i],
                     measured |-> FALSE]>>
             ELSE <<>>)
         \o (IF args.measure_tests
             THEN <<[call |-> "measurePaths", pathType |-> PathTypes[i]]>>
             ELSE <<>>)
         \o (IF args.measure_tests /\ args.histogram
             THEN <<[call |-> "createHistogramForPaths", pathType |-> PathTypes[i],
                     measured |-> TRUE]>>
             ELSE <<>>)

\* The calls main makes on the basis paths.
BasisSteps(args) ==
    (IF args.basis THEN <<[call |-> "generateBasisPaths"]>> ELSE <<>>)
    \o (IF args.measure_tests /\ (args.basis \/ ~AnyPathType(args))
        THEN <<[call |-> "measureBasisPaths"]>> ELSE <<>>)
    \o (IF args.histogram /\ (args.basis \/ ~AnyPathType(args))
        THEN <<[call |-> "createHistogramForBasisPaths"]>> ELSE <<>>)

\* The two checks main makes on the parsed arguments.
Main_CheckArgs ==
    /\ mainRun.pc = "start"
    /\ LET args == mainRun.args
       IN  mainRun' =
             IF (args.overcomplete_basis /\ AnyPathType(args)) /\ ~args.ob_extraction
             THEN [mainRun EXCEPT !.pc = "raised", !.err = GameTimeError,
                                  !.raisedBy = "overcomplete_basis"]
             ELSE IF ~args.basis /\ ~AnyPathType(args)
                     /\ ~args.measure_tests /\ ~args.histogram
             THEN [mainRun EXCEPT !.pc = "returned"]
             ELSE [mainRun EXCEPT !.pc = "find_xml"]
    /\ UNCHANGED <<hist, sim, naming, packing>>
    /\ UNCHANGED <<solverVars, parserVars, concVars>>

\* _findXmlFile and the error when there is no XML file.
Main_FindXml ==
    /\ mainRun.pc = "find_xml"
    /\ mainRun' =
         IF ~mainRun.args.xmlFound
         THEN [mainRun EXCEPT !.pc = "raised", !.err = GameTimeError,
                              !.raisedBy = "_findXmlFile"]
         ELSE [mainRun EXCEPT !.pc = "read_config"]
    /\ UNCHANGED <<hist, sim, naming, packing>>
    /\ UNCHANGED <<solverVars, parserVars, concVars>>

\* readProjectConfigFile, the OVER_COMPLETE_BASIS setting and createDir.
Main_ReadConfig ==
    /\ mainRun.pc = "read_config"
    /\ mainRun' =
         [mainRun EXCEPT !.pc = "basis",
                         !.OVER_COMPLETE_BASIS = mainRun.args.overcomplete_basis,
                         !.steps = @ \o <<[call |-> "readProjectConfigFile"],
                                          [call |-> "createDir"]>>]
    /\ UNCHANGED <<hist, sim, naming, packing>>
    /\ UNCHANGED <<solverVars, parserVars, concVars>>

\* Generation, measurement and histogram of the basis paths.
Main_Basis ==
    /\ mainRun.pc = "basis"
    /\ mainRun' = [mainRun EXCEPT !.pc = "paths", !.i = 1,
                                  !.steps = @ \o BasisSteps(mainRun.args)]
    /\ UNCHANGED <<hist, sim, naming, packing>>
    /\ UNCHANGED <<solverVars, parserVars, concVars>>

\* One iteration of the loop over argsAndPathTypes, or its end.
Main_Paths ==
    /\ mainRun.pc = "paths"
    /\ mainRun' =
         IF mainRun.i > Len(PathTypes)
         THEN [mainRun EXCEPT !.pc = "returned"]
         ELSE [mainRun EXCEPT !.i = @ + 1,
                              !.steps = @ \o PathTypeSteps(mainRun.args, mainRun.i)]
    /\ UNCHANGED <<hist, sim, naming, packing>>
    /\ UNCHANGED <<solverVars, parserVars, concVars>>

InitMain ==
    /\ SolverInit
    /\ adapter.kind = "z3"
    /\ ParserInit
    /\ ConcIdle
    /\ hist = NoHist
    /\ sim = NoSim
    /\ naming = NoNaming
    /\ packing = NoPacking
    /\ mainRun \in [pc : {"start"}, args : MainArgs, err : {"none"},
                    raisedBy : {"none"}, OVER_COMPLETE_BASIS : {FALSE},
                    i : {0}, steps : {<<>>}]

NextMain ==
    \/ Main_CheckArgs
    \/ Main_FindXml
    \/ Main_ReadConfig
    \/ Main_Basis
    \/ Main_Paths

SpecMain == InitMain /\ [][NextMain]_vars

\* C22: whenever main runs with --overcomplete_basis set and --ob_extraction
\* not set, it raises GameTimeError for that, before the project
\* configuration is read and before any basis-path generation, measurement
\* or histogram step.
C22_OvercompleteRequiresObExtraction ==
    (/\ mainRun.pc # "idle"
     /\ mainRun.args.overcomplete_basis
     /\ ~mainRun.args.ob_extraction)
    => /\ mainRun.pc \in {"start", "raised"}
       /\ mainRun.pc = "raised" => mainRun.raisedBy = "overcomplete_basis"
       /\ mainRun.steps = <<>>

(***************************************************************************)
(* Simulator.measurePaths                                                  *)
(***************************************************************************)
\* Values measure(path) may return: 0 in the base class, what the simulation
\* gives in a subclass.
MeasuredValues == PathValues

measurements_append_Front(measurements, measurement) == <<measurement>> \o measurements

\* measurements.append(measurement)
measurements_append(measurements, measurement) == Append(measurements, measurement)

\* One iteration of the loop: measure the path, store the value in the path
\* and append it to the measurements.
MeasurePaths_Measure ==
    /\ sim.pc = "loop"
    /\ sim.pathNum < Len(sim.paths)
    /\ \E measurement \in MeasuredValues :
         LET path == sim.pathNum + 1
         IN  sim' = [sim EXCEPT
                       !.pathNum = @ + 1,
                       !.calls = Append(@, [path |-> path, value |-> measurement]),
                       !.paths[path].measuredValue = measurement,
                       !.measurements = measurements_append(@, measurement)]
    /\ UNCHANGED <<hist, mainRun, naming, packing>>
    /\ UNCHANGED <<solverVars, parserVars, concVars>>

\* return measurements
MeasurePaths_Return ==
    /\ sim.pc = "loop"
    /\ sim.pathNum = Len(sim.paths)
    /\ sim' = [sim EXCEPT !.pc = "returned", !.returned = sim.measurements]
    /\ UNCHANGED <<hist, mainRun, naming, packing>>
    /\ UNCHANGED <<solverVars, parserVars, concVars>>

InitSimulator ==
    /\ SolverInit
    /\ adapter.kind = "z3"
    /\ ParserInit
    /\ ConcIdle
    /\ hist = NoHist
    /\ mainRun = NoMain
    /\ naming = NoNaming
    /\ packing = NoPacking
    /\ sim \in [pc : {"loop"}, paths : PathLists, pathNum : {0},
                measurements : {<<>>}, calls : {<<>>}, returned : {<<>>}]

NextSimulator ==
    \/ MeasurePaths_Measure
    \/ MeasurePaths_Return

SpecSimulator == InitSimulator /\ [][NextSimulator]_vars

\* C23: measurePaths calls measure once per path, in list order, and returns
\* a list as long as the list of paths whose i-th element is the value
\* measured for the i-th path; after the return the measuredValue of every
\* path is the corresponding element.
C23_MeasurePaths ==
    /\ sim.pc \in {"loop", "returned"} =>
           /\ Len(sim.calls) <= Len(sim.paths)
           /\ \A k \in DOMAIN sim.calls : sim.calls[k].path = k
    /\ sim.pc = "returned" =>
           /\ Len(sim.calls) = Len(sim.paths)
           /\ Len(sim.returned) = Len(sim.paths)
           /\ \A i \in DOMAIN sim.paths :
                  /\ sim.returned[i] = sim.calls[i].value
                  /\ sim.paths[i].measuredValue = sim.returned[i]

C23_Witness ==
    /\ sim.pc = "returned"
    /\ Len(sim.paths) = MaxPaths
    /\ sim.returned[1] # sim.returned[2]

(***************************************************************************)
(* Properties of what Z3Solver.checkSat asserts and assumes                *)
(***************************************************************************)
\* The assertions were made and the assumptions collected.
Z3Assumed ==
    /\ adapter.kind = "z3"
    /\ pc \in {"z_check", "z_label"} \/ z3.result # "none"

\* C24: Z3Solver.checkSat asserts every child of the top-level conjunction
\* except the last one, never the last one, and the assumptions are the
\* first child of each asserted equivalence, one per equivalence, in the
\* order of the query.
C24_AssertedAndAssumed ==
    adapter.kind = "z3" =>
        LET children == z3.queryExpr.children
        IN  /\ z3.asserted # <<>> => Len(z3.asserted) < Len(children)
            /\ \A i \in DOMAIN z3.asserted : z3.asserted[i] = children[i]
            /\ Z3Assumed =>
                   /\ Len(z3.asserted) = Len(children) - 1
                   /\ Len(z3.constraintVars) = Len(z3.asserted)
                   /\ \A i \in DOMAIN z3.asserted :
                          z3.constraintVars[i] = children[i].lhs

C24_Witness ==
    /\ Z3Assumed
    /\ z3.result # "none"
    /\ Len(z3.queryExpr.children) = MaxChildren
    /\ z3.constraintVars = <<2, 1>>

(***************************************************************************)
(* Properties of the steps of BoolectorSolver.checkSat                     *)
(***************************************************************************)
\* C25: a BoolectorSolver.checkSat call makes one cycle in a fixed order:
\* the query is written to the temporary file, the process is spawned once,
\* its output is read to the end, the query is labelled, and only then the
\* temporary file is removed; the process is never spawned a second time
\* and the label is applied while the file is still there.
C25_OneCycleInOrder ==
    [][adapter.kind = "boolector" =>
          /\ spawns' <= 1
          /\ spawns' > spawns =>
                 /\ spawns = 0
                 /\ fileExists /\ fileText = "queryStr"
                 /\ output = <<>> /\ labels = <<>>
          /\ (output' # output /\ output' # <<>>) =>
                 /\ spawns = 1 /\ proc = "running" /\ proc' = "exited"
                 /\ output = <<>> /\ labels = <<>>
                 /\ fileExists
          /\ (labels' # labels /\ labels' # <<>>) =>
                 /\ OutputRead /\ proc = "exited"
                 /\ labels = <<>> /\ Len(labels') = 1
                 /\ fileExists /\ fileExists'
          /\ (fileExists /\ ~fileExists') => pc' \in {"returned", "raised"}
          /\ (pc # "returned" /\ pc' = "returned") =>
                 /\ fileText = "queryStr"
                 /\ spawns = 1
                 /\ OutputRead
                 /\ Len(labels) = 1
                 /\ fileExists /\ ~fileExists'
    ]_vars

C25_Witness ==
    /\ adapter.kind = "boolector"
    /\ pc = "returned"
    /\ spawns = 1
    /\ OutputRead
    /\ Len(labels) = 1
    /\ ~fileExists

(***************************************************************************)
(* Properties of the insertions made while a chain is parsed               *)
(***************************************************************************)
\* The chain of the definition being parsed, outermost condition first.
ChainInProgress == src[stack.name].chain.conds

\* The value of the last pair of a sequence of insertions that has the key.
RECURSIVE LastMatch(_, _)
LastMatch(adds, key) ==
    IF adds[Len(adds)].k = key THEN adds[Len(adds)].v
    ELSE LastMatch(SubSeq(adds, 1, Len(adds) - 1), key)

InsertedKeys == {addLog[i].k : i \in DOMAIN addLog}

TextValue(def, key) ==
    IF def.kind = "ite" THEN FirstMatch(def.chain.conds, def.chain.d, key)
    ELSE def.chain.d

\* The value the model text gives to the cell of an array: by the packed
\* key, or one index after the other, each function found by its name in
\* the text wherever its definition stands.
RECURSIVE TextCell(_, _, _)
TextCell(array, indices, text) ==
    IF array.cls # "Z3Array" THEN Raise("AttributeError")
    ELSE IF array.fn \notin DOMAIN text THEN Raise("KeyError")
    ELSE IF Len(indices) = 1 THEN TextValue(text[array.fn], indices[1])
    ELSE TextCell(TextValue(text[array.fn], indices[1]), Tail(indices), text)

\* C27: an array defined by an as-array reference finds its function by
\* name when it is looked up: for a model text that holds the array's
\* definition and the function's, Z3Array.get returns for every index the
\* value the text gives, whether the function's definition stands before or
\* after the array's.
C27_ResolvedAtLookup ==
    (/\ lastGet.kind = "array"
     /\ lastGet.indices # <<>>
     /\ src[lastGet.name].chain.d.fn \in DOMAIN src) =>
        /\ Target = src[lastGet.name].chain.d
        /\ lastGet.val = TextCell(src[lastGet.name].chain.d,
                                  IF lastGet.nested THEN lastGet.indices
                                  ELSE <<PackedKey(lastGet.indices)>>,
                                  src)

C27_Witness ==
    /\ lastGet.kind = "array"
    /\ lastGet.indices = <<1, 2>>
    /\ ~lastGet.nested
    /\ src["a"].chain.d = Z3Array("k!0")
    /\ "k!0" \in DOMAIN src
    /\ src["a"].pos < src["k!0"].pos
    /\ src["k!0"].kind = "ite"
    /\ lastGet.val = Num(2)

(***************************************************************************)
(* Properties of the definitions of constraint variables                   *)
(***************************************************************************)
\* The constraint variables whose definitions have been parsed.
ParsedConstraintVars == ConstraintVarNames \cap DOMAIN src

\* C28: parsing the definition of a constraint variable leaves the scalar
\* assignments, the function mappings and the map of index temporaries as
\* they were: the definition is accepted and nothing of it is kept.
C28_ConstraintVarDiscarded ==
    [][(\E name \in ConstraintVarNames : name \notin DOMAIN src /\ name \in DOMAIN src')
         => /\ allAssignments' = allAssignments
            /\ allMappings' = allMappings
            /\ arrayTempIndexVals' = arrayTempIndexVals
            /\ \A name \in ConstraintVarNames : name \notin DOMAIN allAssignments'
      ]_vars

C28_Witness ==
    /\ ParsedConstraintVars = ConstraintVarNames
    /\ "x" \in DOMAIN allAssignments
    /\ 0 \in DOMAIN arrayTempIndexVals

(***************************************************************************)
(* SatSolver.getSatSolver, SatSolver.getName and the constructor           *)
(*                                                                         *)
(* A name given to getSatSolver is a sequence of characters; the names in  *)
(* the code are spelled out so that lower() has letters to work on.        *)
(***************************************************************************)
\* The characters of the string literals of the code.
Spell ==
    [lingeling |-> <<"l", "i", "n", "g", "e", "l", "i", "n", "g">>,
     minisat |-> <<"m", "i", "n", "i", "s", "a", "t">>,
     picosat |-> <<"p", "i", "c", "o", "s", "a", "t">>]

\* The upper-case letter of each letter of the names.
UpperCase ==
    [l |-> "L", i |-> "I", n |-> "N", g |-> "G", e |-> "E", m |-> "M",
     s |-> "S", a |-> "A", t |-> "T", p |-> "P", c |-> "C", o |-> "O", z |-> "Z"]

\* str.lower(), character by character
lower_char(ch) ==
    IF \E l \in DOMAIN UpperCase : UpperCase[l] = ch
    THEN CHOOSE l \in DOMAIN UpperCase : UpperCase[l] = ch
    ELSE ch

lower_Identity(name) == name

\* satSolverName.lower()
lower(name) == [i \in DOMAIN name |-> lower_char(name[i])]

\* A name in every mix of upper and lower case.
CaseVariants(name) ==
    {[i \in DOMAIN name |-> IF i \in U /\ name[i] \in DOMAIN UpperCase
                            THEN UpperCase[name[i]] ELSE name[i]]
       : U \in SUBSET DOMAIN name}

\* Names a caller may pass: the three names in any case, the empty name, and
\* names of no back end (another solver, a truncated name, a padded name).
SatSolverNames ==
    UNION {CaseVariants(Spell[n]) : n \in DOMAIN Spell}
    \cup {<<>>}
    \cup CaseVariants(<<"z", "3">>)
    \cup {SubSeq(Spell.minisat, 1, 4), <<" ">> \o Spell.picosat}

\* What a call gives: the value returned or the exception raised.
Returned(satSolver, text) == [exc |-> "none", satSolver |-> satSolver, text |-> text]
Raised(exc) == [exc |-> exc, satSolver |-> 0, text |-> <<>>]

\* SatSolver.getSatSolver
SatSolver_getSatSolver(satSolverName) ==
    LET name == lower(satSolverName)
    IN  IF name = Spell.lingeling \/ name = <<>> THEN Returned(LINGELING, <<>>)
        ELSE IF name = Spell.minisat THEN Returned(MINISAT, <<>>)
        ELSE IF name = Spell.picosat THEN Returned(PICOSAT, <<>>)
        ELSE Raised(GameTimeError)

\* SatSolver.getName, by the characters of the name returned
SatSolver_getNameText(satSolver) ==
    IF SatSolver_getName(satSolver) = GameTimeError THEN Raised(GameTimeError)
    ELSE Returned(satSolver, Spell[SatSolver_getName(satSolver)])

\* BoolectorSolver.__init__: the default of the argument satSolver
DefaultSatSolver == LINGELING

\* A call of getSatSolver, of getName, or of the constructor.
SatSolver_Call ==
    /\ naming.pc = "called"
    /\ naming' =
         [naming EXCEPT
            !.pc = "returned",
            !.first = CASE naming.fn = "getSatSolver" -> SatSolver_getSatSolver(naming.name)
                        [] naming.fn = "getName" -> SatSolver_getNameText(naming.arg)
                        [] naming.fn = "__init__" ->
                             Returned(IF naming.given THEN naming.arg
                                      ELSE DefaultSatSolver, <<>>)]
    /\ UNCHANGED <<hist, mainRun, sim, packing>>
    /\ UNCHANGED <<solverVars, parserVars, concVars>>

\* The other function applied to what the first call returned.
SatSolver_Back ==
    /\ naming.pc = "returned"
    /\ naming.fn \in {"getSatSolver", "getName"}
    /\ naming.first.exc = "none"
    /\ naming' =
         [naming EXCEPT
            !.pc = "back",
            !.second = IF naming.fn = "getSatSolver"
                       THEN SatSolver_getNameText(naming.first.satSolver)
                       ELSE SatSolver_getSatSolver(naming.first.text)]
    /\ UNCHANGED <<hist, mainRun, sim, packing>>
    /\ UNCHANGED <<solverVars, parserVars, concVars>>

InitNaming ==
    /\ SolverInit
    /\ adapter.kind = "z3"
    /\ ParserInit
    /\ ConcIdle
    /\ hist = NoHist
    /\ mainRun = NoMain
    /\ sim = NoSim
    /\ packing = NoPacking
    /\ naming \in
         [pc : {"called"}, fn : {"getSatSolver"}, name : SatSolverNames,
          arg : {0}, given : {FALSE}, first : {Raised("none")}, second : {Raised("none")}]
         \cup
         [pc : {"called"}, fn : {"getName"}, name : {<<>>},
          arg : SatSolverArgs, given : {TRUE}, first : {Raised("none")},
          second : {Raised("none")}]
         \cup
         [pc : {"called"}, fn : {"__init__"}, name : {<<>>},
          arg : SatSolverArgs, given : BOOLEAN, first : {Raised("none")},
          second : {Raised("none")}]

NextNaming ==
    \/ SatSolver_Call
    \/ SatSolver_Back

SpecNaming == InitNaming /\ [][NextNaming]_vars

\* The same name up to the case of its letters.
SameLetters(n, m) ==
    /\ Len(n) = Len(m)
    /\ \A i \in DOMAIN n :
          \/ n[i] = m[i]
          \/ m[i] \in DOMAIN UpperCase /\ n[i] = UpperCase[m[i]]

\* The back end a name is valid for, by its letters whatever their case.
ValidFor(name) == {n \in DOMAIN Spell : SameLetters(name, Spell[n])}

\* C29: the mapping of back-end names is a round trip:
\* getSatSolver(getName(s)) = s for LINGELING, MINISAT and PICOSAT, and
\* getName(getSatSolver(n)) is n in lower case for every valid non-empty
\* name n in any case of its letters; the empty name and the constructor's
\* default argument select LINGELING; every other name or value raises
\* GameTimeError.
C29_NameRoundTrip ==
    /\ (naming.pc = "back" /\ naming.fn = "getName") =>
           /\ naming.arg \in {LINGELING, MINISAT, PICOSAT}
           /\ naming.second.exc = "none"
           /\ naming.second.satSolver = naming.arg
    /\ (naming.pc \in {"returned", "back"} /\ naming.fn = "getName"
          /\ naming.arg \notin {LINGELING, MINISAT, PICOSAT}) =>
           /\ naming.pc = "returned"
           /\ naming.first.exc = GameTimeError
    /\ (naming.pc \in {"returned", "back"} /\ naming.fn = "getSatSolver") =>
           IF naming.name = <<>>
           THEN naming.first = Returned(LINGELING, <<>>)
           ELSE IF ValidFor(naming.name) = {}
           THEN naming.first.exc = GameTimeError
           ELSE /\ naming.first.exc = "none"
                /\ naming.pc = "back" =>
                      /\ naming.second.exc = "none"
                      /\ SameLetters(naming.name, naming.second.text)
                      /\ \A i \in DOMAIN naming.second.text :
                             naming.second.text[i] \in DOMAIN UpperCase
    /\ (naming.pc = "returned" /\ naming.fn = "__init__" /\ ~naming.given) =>
           naming.first = Returned(LINGELING, <<>>)

C29_Witness ==
    /\ naming.pc = "back"
    /\ naming.fn = "getSatSolver"
    /\ naming.name = <<"M", "i", "n", "i", "S", "a", "t">>
    /\ naming.first.satSolver = MINISAT
    /\ naming.second.text = Spell.minisat

(***************************************************************************)
(* Index packing of Z3Array.get on index tuples of any value               *)
(***************************************************************************)
\* Index values below 2^WORD_BITSIZE: the least and the greatest, and those
\* around the step from one hexadecimal digit to two.
PackedIndexValues == {0, 1, 15, 16, 17, 2^WORD_BITSIZE - 1}

PackedIndexTuples == {s \in SeqsUpTo(PackedIndexValues, MaxDims) : Len(s) >= 1}

\* Lines 108-114: the tuple of one packed index that replaces indices.
PackIndices(indices) == <<hexToDec(HexIndices(indices))>>

\* Z3Array.get with MODEL_AS_NESTED_ARRAYS false, up to the lookup, for two
\* index tuples.
Z3Array_Pack ==
    /\ packing.pc = "called"
    /\ packing' = [packing EXCEPT !.pc = "packed",
                                  !.keyA = PackIndices(packing.a),
                                  !.keyB = PackIndices(packing.b)]
    /\ UNCHANGED <<hist, mainRun, sim, naming>>
    /\ UNCHANGED <<solverVars, parserVars, concVars>>

InitPacking ==
    /\ SolverInit
    /\ adapter.kind = "z3"
    /\ ParserInit
    /\ ConcIdle
    /\ hist = NoHist
    /\ mainRun = NoMain
    /\ sim = NoSim
    /\ naming = NoNaming
    /\ packing \in [pc : {"called"}, a : PackedIndexTuples, b : PackedIndexTuples,
                    keyA : {<<>>}, keyB : {<<>>}]

NextPacking == Z3Array_Pack

SpecPacking == InitPacking /\ [][NextPacking]_vars

\* C30: with MODEL_AS_NESTED_ARRAYS false, two different index tuples of the
\* same length whose components are all below 2^WORD_BITSIZE are never
\* packed to the same key.
C30_PackingInjective ==
    (/\ packing.pc = "packed"
     /\ Len(packing.a) = Len(packing.b)
     /\ packing.a # packing.b)
    => packing.keyA # packing.keyB

C30_Witness ==
    /\ packing.pc = "packed"
    /\ packing.a = <<1, 16>>
    /\ packing.b = <<17, 0>>
    /\ packing.keyA = <<272>>
    /\ packing.keyB = <<4352>>
====
